---- MODULE Spec2Model ----
(***************************************************************************)
(* LedgerOne: the ledger store (categories, transactions, settings), the   *)
(* CSV import pipeline of app/services/import_service.py and the monthly   *)
(* aggregation of app/services/transaction_service.py.                     *)
(*                                                                         *)
(* Representation.  Amounts are Python floats in the code; a row holds the *)
(* decimal number it was given as a count of thousandths (45.50 is 45500), *)
(* and Real gives the double the Float column stores for it.  Sums,        *)
(* quotients, comparisons and round(x, 2) are computed on those doubles,   *)
(* digit for digit as IEEE 754 arithmetic computes them.  A calendar date  *)
(* is the integer YYYYMMDD, so that date order is integer order.  CSV      *)
(* cells are strings taken from small finite sets; strip, strptime and     *)
(* float are defined on those strings by what the Python functions return  *)
(* on them.  Server-side created_at timestamps are left out of a           *)
(* Transaction.                                                            *)
(***************************************************************************)
EXTENDS Integers, Sequences, FiniteSets, TLC

VARIABLES
    today,          \* date.today(), the current date of the process
    categories,     \* committed rows of table categories, in rowid order
    transactions,   \* committed rows of table transactions, in rowid order
    settings,       \* committed rows of table settings (at most the row id = 1)
    imp,            \* the request's session while import_transactions_from_csv runs
    ret,            \* what the last service call returned or raised
    pre,            \* the committed store as it was when the last call began
    vfile,          \* the CSV file whose rows validate_row is applied to
    vrow,           \* validate_row's argument row
    vline,          \* validate_row's argument line_number
    vres,           \* validate_row's result
    reqs            \* the requests under way in other sessions, by session

vars == <<today, categories, transactions, settings, imp, ret, pre, vfile, vrow, vline, vres,
          reqs>>

---------------------------------------------------------------------------
(* Bounds of the model *)

MaxRows == 2        \* data rows of one CSV payload
MaxTxns == 2        \* committed transactions
MaxLedger == 3      \* transactions of a ledger the aggregations are applied to

---------------------------------------------------------------------------
(* Values *)

None == "<None>"                \* Python None in a CSV row dict
NoId == 0                       \* NULL category_id
NoBudget == -1                  \* NULL monthly_budget / global_monthly_budget
NoColor == "<NULL>"             \* NULL color
NoLine == 0                     \* an error string without a "Ligne n:" prefix

DEFAULT_CATEGORY_COLOR == "#505050"
DEFAULT_CATEGORY_BUDGET == NoBudget

Days == {20250131, 20250228}

Range(s) == {s[i] : i \in DOMAIN s}

\* rowid of an INTEGER PRIMARY KEY insert: one more than the largest rowid
NextId(rows) ==
    IF rows = <<>> THEN 1
    ELSE 1 + (CHOOSE n \in {r.id : r \in Range(rows)} :
                 \A r \in Range(rows) : r.id <= n)

---------------------------------------------------------------------------
(* str.strip, datetime.strptime(s, '%Y-%m-%d').date() and float(s) on the   *)
(* cell strings of the model                                               *)

strip(s) ==
    CASE s = " 2025-02-10 " -> "2025-02-10"
      [] s = "   "          -> ""
      [] s = " 60 "         -> "60"
      [] s = " Courses "    -> "Courses"
      [] s = " Transport "  -> "Transport"
      [] OTHER              -> s

Raised == [raised |-> TRUE, value |-> 0]
Value(v) == [raised |-> FALSE, value |-> v]

strptime(s) ==
    CASE s = "2025-01-15" -> Value(20250115)
      [] s = "2025-02-10" -> Value(20250210)
      [] s = "2025-1-5"   -> Value(20250105)
      [] s = "2099-12-31" -> Value(20991231)
      [] OTHER            -> Raised

float(s) ==
    CASE s = "45.50"  -> Value(45500)
      [] s = "-25.00" -> Value(-25000)
      [] s = "60"     -> Value(60000)
      [] s = "0.00"   -> Value(0)
      [] s = "-0.0"   -> Value(0)
      [] OTHER        -> Raised

year(d) == d \div 10000
month(d) == (d \div 100) % 100

---------------------------------------------------------------------------
(* CSV payloads and csv.DictReader *)

COLUMNS == <<"date", "description", "amount", "category">>

\* One dict of csv.DictReader: the k-th header column maps to the k-th cell
\* of the line, or to None (restval) when the line is shorter; cells beyond
\* the header go under the restkey, which no code reads.
DictRow(header, line) ==
    [c \in Range(header) |->
        LET k == CHOOSE j \in DOMAIN header : header[j] = c
        IN  IF k <= Len(line) THEN line[k] ELSE None]

parse_csv_file(file_content) ==
    [i \in 1..Len(file_content.lines) |->
        DictRow(file_content.header, file_content.lines[i])]

\* dict.get
row_get(row, c) == IF c \in DOMAIN row THEN row[c] ELSE None

\* `not row.get(c) or row[c].strip() == ''`
Blank(row, c) ==
    \/ row_get(row, c) = None
    \/ row_get(row, c) = ""
    \/ strip(row_get(row, c)) = ""

Err(line_number, msg) == [line |-> line_number, msg |-> msg]

Accept == [valid |-> TRUE, error |-> Err(NoLine, "")]
Reject(line_number, msg) == [valid |-> FALSE, error |-> Err(line_number, msg)]

\* validate_row with the description checked after the amount
validate_row_amount_first(row, line_number) ==
    IF Blank(row, "date")
    THEN Reject(line_number, "La date est obligatoire")
    ELSE IF strptime(strip(row["date"])).raised
    THEN Reject(line_number, "La date doit etre au format YYYY-MM-DD")
    ELSE IF strptime(strip(row["date"])).value > today
    THEN Reject(line_number, "La date ne peut pas etre dans le futur")
    ELSE IF Blank(row, "amount")
    THEN Reject(line_number, "Le montant est obligatoire")
    ELSE IF float(strip(row["amount"])).raised
    THEN Reject(line_number, "Le montant doit etre un nombre (ex: 45.99)")
    ELSE IF float(strip(row["amount"])).value = 0
    THEN Reject(line_number, "Le montant ne peut etre egal a 0")
    ELSE IF Blank(row, "description")
    THEN Reject(line_number, "La description est obligatoire")
    ELSE Accept

\* import_service.validate_row
validate_row(row, line_number) ==
    IF Blank(row, "date")
    THEN Reject(line_number, "La date est obligatoire")
    ELSE IF strptime(strip(row["date"])).raised
    THEN Reject(line_number, "La date doit etre au format YYYY-MM-DD")
    ELSE IF strptime(strip(row["date"])).value > today
    THEN Reject(line_number, "La date ne peut pas etre dans le futur")
    ELSE IF Blank(row, "description")
    THEN Reject(line_number, "La description est obligatoire")
    ELSE IF Blank(row, "amount")
    THEN Reject(line_number, "Le montant est obligatoire")
    ELSE IF float(strip(row["amount"])).raised
    THEN Reject(line_number, "Le montant doit etre un nombre (ex: 45.99)")
    ELSE IF float(strip(row["amount"])).value = 0
    THEN Reject(line_number, "Le montant ne peut etre egal a 0")
    ELSE Accept

---------------------------------------------------------------------------
(* Double-precision arithmetic: the REAL columns of SQLite and the floats *)
(* of Python                                                              *)

\* A natural number of any size: its digits in base 2^24, the lowest first,
\* without leading zero digits; <<>> is 0
Base == 2 ^ 24

BigOfInt(i) ==
    IF i = 0 THEN <<>>
    ELSE IF i < Base THEN <<i>>
    ELSE <<i % Base, i \div Base>>

RECURSIVE BigTrim(_)
BigTrim(a) ==
    IF a = <<>> THEN a
    ELSE IF a[Len(a)] = 0 THEN BigTrim(SubSeq(a, 1, Len(a) - 1))
    ELSE a

RECURSIVE BigCmpFrom(_, _, _)
BigCmpFrom(a, b, i) ==
    IF i = 0 THEN 0
    ELSE IF a[i] > b[i] THEN 1
    ELSE IF a[i] < b[i] THEN -1
    ELSE BigCmpFrom(a, b, i - 1)

\* 1, 0 or -1 as a is above, equal to or below b
BigCmp(a, b) ==
    IF Len(a) > Len(b) THEN 1
    ELSE IF Len(a) < Len(b) THEN -1
    ELSE BigCmpFrom(a, b, Len(a))

RECURSIVE BigAddFrom(_, _, _, _, _)
BigAddFrom(a, b, i, carry, sum) ==
    IF i > Len(a) /\ i > Len(b)
    THEN IF carry = 0 THEN sum ELSE Append(sum, carry)
    ELSE LET digit == (IF i <= Len(a) THEN a[i] ELSE 0)
                      + (IF i <= Len(b) THEN b[i] ELSE 0) + carry
         IN  BigAddFrom(a, b, i + 1, digit \div Base, Append(sum, digit % Base))

BigAdd(a, b) == BigAddFrom(a, b, 1, 0, <<>>)

RECURSIVE BigSubFrom(_, _, _, _, _)
BigSubFrom(a, b, i, borrow, difference) ==
    IF i > Len(a) THEN BigTrim(difference)
    ELSE LET digit == a[i] - (IF i <= Len(b) THEN b[i] ELSE 0) - borrow
         IN  BigSubFrom(a, b, i + 1, IF digit < 0 THEN 1 ELSE 0,
                        Append(difference, IF digit < 0 THEN digit + Base ELSE digit))

\* a - b for a >= b
BigSub(a, b) == BigSubFrom(a, b, 1, 0, <<>>)

RECURSIVE BigTimesFrom(_, _, _, _, _)
BigTimesFrom(a, k, i, carry, product) ==
    IF i > Len(a)
    THEN IF carry = 0 THEN product ELSE Append(product, carry)
    ELSE LET digit == a[i] * k + carry
         IN  BigTimesFrom(a, k, i + 1, digit \div Base, Append(product, digit % Base))

\* a * k for 0 < k < 128
BigTimes(a, k) == BigTimesFrom(a, k, 1, 0, <<>>)

\* a * 2^s
BigShl(a, s) ==
    LET words == s \div 24
        bits == s % 24
        low == 2 ^ (24 - bits)
        n == Len(a)
        digits == [i \in 1..(n + 1) |->
                    (IF i <= n THEN (a[i] % low) * 2 ^ bits ELSE 0)
                    + (IF i > 1 THEN a[i - 1] \div low ELSE 0)]
    IN  IF a = <<>> THEN a
        ELSE BigTrim([i \in 1..words |-> 0] \o digits)

\* a \div 2^s
BigShr(a, s) ==
    LET words == s \div 24
        bits == s % 24
        high == 2 ^ (24 - bits)
        n == Len(a) - words
    IN  IF n <= 0 THEN <<>>
        ELSE BigTrim([i \in 1..n |->
                        (a[i + words] \div 2 ^ bits)
                        + (IF i < n THEN (a[i + words + 1] % 2 ^ bits) * high ELSE 0)])

\* The number of binary digits of i: of i below 2^8, and of i below 2^31
BitsOfByte(i) ==
    IF i < 16
    THEN (IF i < 4 THEN (IF i < 2 THEN i ELSE 2) ELSE IF i < 8 THEN 3 ELSE 4)
    ELSE (IF i < 64 THEN (IF i < 32 THEN 5 ELSE 6) ELSE IF i < 128 THEN 7 ELSE 8)

BitLength(i) ==
    IF i < 65536
    THEN (IF i < 256 THEN BitsOfByte(i) ELSE 8 + BitsOfByte(i \div 256))
    ELSE (IF i < 16777216 THEN 16 + BitsOfByte(i \div 65536)
          ELSE 24 + BitsOfByte(i \div 16777216))

\* The number of binary digits of a
BigBits(a) ==
    IF a = <<>> THEN 0 ELSE 24 * (Len(a) - 1) + BitLength(a[Len(a)])

BigOdd(a) == a # <<>> /\ a[1] % 2 = 1

\* A double: (-1)^neg * (h * 2^27 + l) * 2^e, where h * 2^27 + l is a number
\* of exactly 53 binary digits (h of 26, l below 2^27), or h = 0 for 0.0
Half == 2 ^ 27
Wide == 2 ^ 30

Double(neg, h, l, e) == [neg |-> neg, h |-> h, l |-> l, e |-> e]
Zero(neg) == Double(neg, 0, 0, 0)
IsZero(x) == x.h = 0
Negated(x) == [x EXCEPT !.neg = ~x.neg]

\* The number whose halves are h (below 2^30) and l (below 2^27)
BigOfHalves(h, l) ==
    BigTrim(<<l % Base, (l \div Base) + (h % 2097152) * 8, h \div 2097152>>)

\* v with its last binary digit set when something is left below it
Sticky(v, left) == IF left /\ v % 2 = 0 THEN v + 1 ELSE v

\* The double nearest to (-1)^neg * (hi * 2^30 + lo) * 2^(e - 3) for a number
\* hi * 2^30 + lo of exactly 56 binary digits, the one with an even last digit
\* when two are as near; the last digit of lo stands for all that is left
\* below it
Nearest(neg, hi, lo, e) ==
    LET l == lo \div 8
             + (IF lo % 8 > 4 \/ (lo % 8 = 4 /\ (lo \div 8) % 2 = 1) THEN 1 ELSE 0)
        h == IF l = Half THEN hi + 1 ELSE hi
    IN  IF h = Half \div 2 THEN Double(neg, Half \div 4, 0, e + 1)
        ELSE Double(neg, h, l % Half, e)

\* The same for a number hi * 2^30 + lo that is not 0 of at most 57 binary
\* digits, lo negative for a borrow or 2^30 and above for a carry
Normal(neg, hi0, lo0, e) ==
    LET hi == hi0 + lo0 \div Wide
        lo == lo0 % Wide
        s == 56 - (IF hi > 0 THEN 30 + BitLength(hi) ELSE BitLength(lo))
    IN  IF hi >= Half \div 2
        THEN Nearest(neg, hi \div 2,
                     Sticky(lo \div 2 + (hi % 2) * (Wide \div 2), lo % 2 = 1), e + 1)
        ELSE IF hi >= Half \div 4 THEN Nearest(neg, hi, lo, e)
        ELSE IF s < 30
        THEN Nearest(neg, hi * 2 ^ s + lo \div 2 ^ (30 - s), (lo % 2 ^ (30 - s)) * 2 ^ s, e - s)
        ELSE Nearest(neg, lo * 2 ^ (s - 30), 0, e - s)

\* (hi * 2^30 + lo) \div 2^d as <<high part, low part>>, 0 <= d <= 55, the
\* last digit of the low part set when the division leaves something
ShiftedRight(hi, lo, d) ==
    IF d = 0 THEN <<hi, lo>>
    ELSE IF d < 30
    THEN <<hi \div 2 ^ d,
           Sticky(lo \div 2 ^ d + (hi % 2 ^ d) * 2 ^ (30 - d), lo % 2 ^ d # 0)>>
    ELSE <<0, Sticky(hi \div 2 ^ (d - 30), hi % 2 ^ (d - 30) # 0 \/ lo # 0)>>

\* |x| > |y| for x and y that are not 0
MagnitudeAbove(x, y) ==
    \/ x.e > y.e
    \/ x.e = y.e /\ (x.h > y.h \/ (x.h = y.h /\ x.l > y.l))

\* x + y for |x| >= |y|, neither 0: y is brought to the exponent of x with
\* three more binary digits, the last one sticky
AddOrdered(x, y) ==
    LET part == ShiftedRight(y.h, 8 * y.l, x.e - y.e)
    IN  IF x.e - y.e > 55 THEN x
        ELSE IF x.neg = y.neg THEN Normal(x.neg, x.h + part[1], 8 * x.l + part[2], x.e)
        ELSE IF x.e = y.e /\ x.h = y.h /\ x.l = y.l THEN Zero(FALSE)
        ELSE Normal(x.neg, x.h - part[1], 8 * x.l - part[2], x.e)

\* x + y in double precision
FloatAdd(x, y) ==
    IF IsZero(x) THEN (IF IsZero(y) THEN Zero(x.neg /\ y.neg) ELSE y)
    ELSE IF IsZero(y) THEN x
    ELSE IF MagnitudeAbove(y, x) THEN AddOrdered(y, x)
    ELSE AddOrdered(x, y)

FloatSub(x, y) == FloatAdd(x, Negated(y))

\* x > y
FloatGreater(x, y) ==
    IF IsZero(x) THEN ~IsZero(y) /\ y.neg
    ELSE IF IsZero(y) THEN ~x.neg
    ELSE IF x.neg # y.neg THEN y.neg
    ELSE IF x.neg THEN MagnitudeAbove(y, x)
    ELSE MagnitudeAbove(x, y)

FloatEqual(x, y) == (IsZero(x) /\ IsZero(y)) \/ x = y

\* The long division of r by d, r < d, in base 16, the numbers kept in two
\* halves of 27 binary digits (d of 53), up to the 56th binary digit of the
\* quotient q: <<remainder high, remainder low, quotient high, quotient low>>.
\* The digit is the quotient of the high halves or one more.
RECURSIVE LongDivision(_, _, _, _, _, _)
LongDivision(rh, rl, dh, dl, qh, ql) ==
    IF qh >= 268435456 THEN <<rh, rl, qh, ql>>
    ELSE LET r16h == 16 * rh + rl \div 8388608
             r16l == (rl % 8388608) * 16
             low == r16h \div (dh + 1)
             l == r16l - ((low * dl) % Half)
             h == r16h - low * dh - (low * dl) \div Half - (IF l < 0 THEN 1 ELSE 0)
             tl == IF l < 0 THEN l + Half ELSE l
             more == h > dh \/ (h = dh /\ tl >= dl)
             borrow == IF more /\ tl < dl THEN 1 ELSE 0
         IN  LongDivision(IF more THEN h - dh - borrow ELSE h,
                          IF more THEN tl - dl + borrow * Half ELSE tl,
                          dh, dl,
                          16 * qh + ql \div 8388608,
                          (ql % 8388608) * 16 + low + (IF more THEN 1 ELSE 0))

\* x / y in double precision, y not 0
FloatDiv(x, y) ==
    LET first == IF x.h > y.h \/ (x.h = y.h /\ x.l >= y.l) THEN 1 ELSE 0
        rl == IF first = 1 THEN x.l - y.l ELSE x.l
        rh == IF first = 1 THEN x.h - y.h ELSE x.h
        d == LongDivision(rh + rl \div Half, rl % Half, y.h, y.l, 0, first)
    IN  IF IsZero(x) THEN Zero(x.neg # y.neg)
        ELSE Normal(x.neg # y.neg, d[3] \div 8,
                    Sticky(d[4] + (d[3] % 8) * Half, d[1] # 0 \/ d[2] # 0),
                    x.e - y.e - 53)

\* 100 * (h * 2^27 + l) as <<p2, p1, p0>>: p2 * 2^36 + p1 * 2^18 + p0, with p1
\* and p0 below 2^18
Times100(h, l) ==
    LET p0 == 100 * (l % 262144)
        p1 == 100 * (l \div 262144 + (h % 512) * 512) + p0 \div 262144
    IN  <<100 * (h \div 512) + p1 \div 262144, p1 % 262144, p0 % 262144>>

\* x * 100.0 in double precision
FloatTimes100(x) ==
    LET p == Times100(x.h, x.l)
    IN  IF IsZero(x) THEN x
        ELSE Normal(x.neg, 4 * p[1] + p[2] \div 65536,
                    Sticky((p[2] % 65536) * 16384 + p[3] \div 16, p[3] % 16 # 0),
                    x.e + 7)

\* float(i) of an integer below 2^26 in magnitude
FloatOfInt(i) ==
    LET magnitude == IF i < 0 THEN 0 - i ELSE i
        n == BitLength(magnitude)
    IN  IF i = 0 THEN Zero(FALSE)
        ELSE Double(i < 0, magnitude * 2 ^ (26 - n), 0, n - 53)

\* The double nearest to x / 1000 for an integer x below 2^26 in magnitude:
\* float(x) has its digits in h, and h * 2^40 is divided by 1000 twenty binary
\* digits at a time
FloatOfThousandths(x) ==
    LET v == FloatOfInt(x)
        r0 == v.h % 1000
        q1 == (r0 * 1048576) \div 1000
        r1 == (r0 * 1048576) % 1000
        q2 == (r1 * 1048576) \div 1000
        r2 == (r1 * 1048576) % 1000
    IN  IF x = 0 THEN Zero(FALSE)
        ELSE Normal(v.neg, (v.h \div 1000) * 1024 + q1 \div 1024,
                    Sticky((q1 % 1024) * 1048576 + q2, r2 # 0), v.e - 10)

\* A number of hundredths: (-1)^neg * k / 100, k a number of any size
Hundredths(neg, k) == [neg |-> neg, k |-> k]

\* round(x, 2) for x of 2^17 and above: x * 100 to the nearest integer, the
\* even one when two are as near
RoundLarge(x) ==
    LET n == BigTimes(BigOfHalves(x.h, x.l), 100)
        s == 0 - x.e
        q == BigShr(n, s)
        half == BigCmp(BigShl(BigSub(n, BigShl(q, s)), 1), BigShl(<<1>>, s))
        up == half > 0 \/ (half = 0 /\ BigOdd(q))
    IN  IF x.e >= 0 THEN Hundredths(x.neg, BigShl(n, x.e))
        ELSE Hundredths(x.neg, IF up THEN BigAdd(q, <<1>>) ELSE q)

\* round(x, 2): the number of hundredths nearest to x, the even one when two
\* are as near.  Below 2^17, x * 100 = p * 2^e with e < -36, and the digits of
\* p from the 2^36 up decide
round2(x) ==
    LET p == Times100(x.h, x.l)
        t == 0 - x.e - 36
        q == p[1] \div 2 ^ t
        left == p[1] % 2 ^ t
        up == \/ left > 2 ^ (t - 1)
              \/ left = 2 ^ (t - 1) /\ (p[2] # 0 \/ p[3] # 0 \/ q % 2 = 1)
    IN  IF IsZero(x) THEN Hundredths(x.neg, <<>>)
        ELSE IF t >= 26 THEN Hundredths(x.neg, <<>>)
        ELSE IF t >= 1 THEN Hundredths(x.neg, BigOfInt(IF up THEN q + 1 ELSE q))
        ELSE RoundLarge(x)

---------------------------------------------------------------------------
(* The ledger store *)

Category(id, name, color, monthly_budget) ==
    [id |-> id, name |-> name, color |-> color, monthly_budget |-> monthly_budget]

Transaction(id, date, description, amount, category_id) ==
    [id |-> id, date |-> date, description |-> description,
     amount |-> amount, category_id |-> category_id]

Settings(global_monthly_budget) ==
    [id |-> 1, global_monthly_budget |-> global_monthly_budget]

\* db.query(Category).filter(Category.name == category_name).first() over the
\* rows a session sees; <<>> stands for None
get_category_by_name(visible, category_name) ==
    SelectSeq(visible, LAMBDA c : c.name = category_name)

category_exists(visible, category_id) ==
    \E i \in DOMAIN visible : visible[i].id = category_id

\* Column(Float): the double nearest to the number of thousandths the store
\* holds for the column
Real(x) == FloatOfThousandths(x)

\* func.sum(Transaction.amount) with the year/month filter and the optional
\* category filter; category_id = NoId stands for the argument None
InWindow(t, y, m) == year(t.date) = y /\ month(t.date) = m

\* SUM over the rows in the order of their rowid: each amount is added to the
\* running double
RECURSIVE SumAmounts(_)
SumAmounts(rows) ==
    IF rows = <<>> THEN Zero(FALSE)
    ELSE FloatAdd(SumAmounts(SubSeq(rows, 1, Len(rows) - 1)),
                  Real(rows[Len(rows)].amount))

\* get_monthly_total without the category filter of line 188
get_monthly_total_any_category(rows, y, m, category_id) ==
    LET matching == SelectSeq(rows, LAMBDA t : InWindow(t, y, m))
    IN  IF matching = <<>> THEN Zero(FALSE) ELSE SumAmounts(matching)

\* transaction_service.get_monthly_total: float(result), or 0.0 for the NULL
\* of a SUM over no row
get_monthly_total(rows, y, m, category_id) ==
    LET matching == SelectSeq(rows, LAMBDA t :
                        /\ InWindow(t, y, m)
                        /\ (category_id # NoId => t.category_id = category_id))
    IN  IF matching = <<>> THEN Zero(FALSE) ELSE SumAmounts(matching)

\* The key of get_total_by_category for the transactions without category
\* ("Sans catégorie" in the code)
UNCATEGORIZED == "Sans categorie"

\* The names of the model in the order of their bytes, the order in which
\* GROUP BY categories.name returns its groups
NameOrder == <<"", "Alimentation", "Courses", "Loisirs", UNCATEGORIZED, "Transport">>

\* The transactions of the window joined to the category named name
\* (Category.id == Transaction.category_id)
JoinedTo(cats, rows, y, m, name) ==
    SelectSeq(rows, LAMBDA t :
        /\ InWindow(t, y, m)
        /\ \E i \in DOMAIN cats : cats[i].name = name /\ cats[i].id = t.category_id)

\* The transactions of the window with category_id IS NULL
Uncategorized(rows, y, m) ==
    SelectSeq(rows, LAMBDA t : InWindow(t, y, m) /\ t.category_id = NoId)

\* A dict: its keys in the order of their insertion, and the value at each
Dict(keys, at) == [keys |-> keys, at |-> at]

\* The first query of get_total_by_category, lines 199-212: one entry for each
\* category name that the join and the window leave a row for, in the order of
\* the names
GroupedTotals(cats, rows, y, m) ==
    LET names == {cats[i].name : i \in {j \in DOMAIN cats :
                        JoinedTo(cats, rows, y, m, cats[j].name) # <<>>}}
    IN  Dict(SelectSeq(NameOrder, LAMBDA name : name \in names),
             [name \in names |-> SumAmounts(JoinedTo(cats, rows, y, m, name))])

\* dict.get(key, default)
DictGet(d, key, default) == IF key \in DOMAIN d.at THEN d.at[key] ELSE default

\* totals[key] = value: a new key is the last key, a key of the dict keeps
\* its place
DictSet(d, key, value) ==
    Dict(IF key \in DOMAIN d.at THEN d.keys ELSE Append(d.keys, key),
         [k \in DOMAIN d.at \cup {key} |-> IF k = key THEN value ELSE d.at[k]])

\* sum(d.values()): the values are added to the running double in the order
\* of the keys
RECURSIVE SumValuesUpTo(_, _)
SumValuesUpTo(d, n) ==
    IF n = 0 THEN Zero(FALSE)
    ELSE FloatAdd(SumValuesUpTo(d, n - 1), d.at[d.keys[n]])

SumValues(d) == SumValuesUpTo(d, Len(d.keys))

\* get_total_by_category, lines 215-224: the second query, and the key of the
\* transactions without category; `if uncategorized_total:` is false for
\* None and for 0.0
AddUncategorized(totals, rows, y, m) ==
    LET uncategorized_total == SumAmounts(Uncategorized(rows, y, m))
    IN  IF ~IsZero(uncategorized_total)
        THEN DictSet(totals, UNCATEGORIZED, uncategorized_total)
        ELSE totals

\* transaction_service.get_total_by_category: a dict from label to total
get_total_by_category(cats, rows, y, m) ==
    AddUncategorized(GroupedTotals(cats, rows, y, m), rows, y, m)

\* get_category_breakdown returning the empty dict only when no bucket has
\* a total
get_category_breakdown_unless_no_bucket(cats, rows, y, m) ==
    LET totals_by_cat == get_total_by_category(cats, rows, y, m)
        total_global == SumValues(totals_by_cat)
    IN  [category_name \in DOMAIN totals_by_cat.at |->
            [total |-> round2(totals_by_cat.at[category_name]),
             percentage |-> IF IsZero(total_global) THEN Hundredths(FALSE, <<>>)
                            ELSE round2(FloatTimes100(
                                    FloatDiv(totals_by_cat.at[category_name], total_global))),
             count |-> IF category_name = UNCATEGORIZED
                       THEN Len(Uncategorized(rows, y, m))
                       ELSE Len(JoinedTo(cats, rows, y, m, category_name))]]

\* transaction_service.get_category_breakdown: a dict from label to
\* {total, percentage, count}
get_category_breakdown(cats, rows, y, m) ==
    LET totals_by_cat == get_total_by_category(cats, rows, y, m)
        total_global == SumValues(totals_by_cat)
    IN  IF IsZero(total_global) THEN [category_name \in {} |-> 0]
        ELSE [category_name \in DOMAIN totals_by_cat.at |->
                [total |-> round2(totals_by_cat.at[category_name]),
                 percentage |-> round2(FloatTimes100(
                                    FloatDiv(totals_by_cat.at[category_name], total_global))),
                 count |-> IF category_name = UNCATEGORIZED
                           THEN Len(Uncategorized(rows, y, m))
                           ELSE Len(JoinedTo(cats, rows, y, m, category_name))]]

\* get_monthly_summary counting only the transactions that have a category
get_monthly_summary_count_categorized(cats, rows, y, m) ==
    LET total == get_monthly_total(rows, y, m, NoId)
        count == Len(SelectSeq(rows, LAMBDA t : InWindow(t, y, m) /\ t.category_id # NoId))
        average == IF count > 0 THEN FloatDiv(total, FloatOfInt(count)) ELSE Zero(FALSE)
    IN  [total |-> round2(total), count |-> count, average |-> round2(average),
         by_category |-> get_category_breakdown(cats, rows, y, m)]

\* transaction_service.get_monthly_summary
get_monthly_summary(cats, rows, y, m) ==
    LET total == get_monthly_total(rows, y, m, NoId)
        count == Len(SelectSeq(rows, LAMBDA t : InWindow(t, y, m)))
        average == IF count > 0 THEN FloatDiv(total, FloatOfInt(count)) ELSE Zero(FALSE)
    IN  [total |-> round2(total), count |-> count, average |-> round2(average),
         by_category |-> get_category_breakdown(cats, rows, y, m)]

Store == [transactions |-> transactions, categories |-> categories,
          settings |-> settings]
NoStore == [transactions |-> <<>>, categories |-> <<>>, settings |-> <<>>]

---------------------------------------------------------------------------
(* import_transactions_from_csv *)

\* The session of the request: rows parsed, rows processed so far, the
\* counters, the categories INSERTed by db.flush() and not yet committed,
\* the Transactions handed to db.add(), and whether a failed flush has left
\* the session's transaction rolled back (every later query or commit then
\* raises PendingRollbackError until db.rollback()).
IdleSession ==
    [pc |-> "idle", rows |-> <<>>, idx |-> 0, inserted |-> 0, skipped |-> 0,
     errors |-> <<>>, flushed |-> <<>>, pending |-> <<>>, inactive |-> FALSE]

NoRet == [op |-> "none"]

\* The other sessions: each serves one request at a time, and a request
\* takes one step for each SQL statement it issues, a db.refresh included
Sessions == {1, 2}
IdleRequest == [pc |-> "idle"]
NoRequests == [s \in Sessions |-> IdleRequest]

Report(inserted, skipped, errors) ==
    [op |-> "import", inserted |-> inserted, skipped |-> skipped,
     errors |-> errors]

Idle == imp.pc = "idle" /\ ret = NoRet

\* enumerate(rows, start=1)
LineNumber_from_one(i) == i

\* enumerate(rows, start=2): the number of the i-th data row
LineNumber(i) == i + 1

\* The bound of the model on the ledger: the rows of the file that would be
\* accepted fit beside the transactions of the store
WithinBound(file) ==
    LET rows == parse_csv_file(file)
    IN  Len(transactions) +
        Cardinality({i \in DOMAIN rows : validate_row(rows[i], LineNumber(i)).valid})
            <= MaxTxns

\* ImportBegin without the empty check of lines 179-184
ImportBegin_no_empty_check(file) ==
    /\ Idle
    /\ WithinBound(file)
    /\ pre' = Store
    /\ IF ~file.utf8
       THEN /\ imp' = [IdleSession EXCEPT !.pc = "decode_error"]
            /\ ret' = Report(0, 0, <<Err(NoLine, "Erreur de decodage : le fichier doit etre encode en UTF-8")>>)
       ELSE /\ imp' = [IdleSession EXCEPT !.pc = "rows", !.rows = parse_csv_file(file)]
            /\ ret' = NoRet
    /\ UNCHANGED <<today, categories, transactions, settings, vfile, vrow, vline, vres, reqs>>

\* lines 171-184: decode, parse, empty check
ImportBegin(file) ==
    /\ Idle
    /\ WithinBound(file)
    /\ pre' = Store
    /\ IF ~file.utf8
       THEN /\ imp' = [IdleSession EXCEPT !.pc = "decode_error"]
            /\ ret' = Report(0, 0, <<Err(NoLine, "Erreur de decodage : le fichier doit etre encode en UTF-8")>>)
       ELSE IF parse_csv_file(file) = <<>>
       THEN /\ imp' = [IdleSession EXCEPT !.pc = "empty"]
            /\ ret' = Report(0, 0, <<Err(NoLine, "Le fichier CSV est vide ou mal formate")>>)
       ELSE /\ imp' = [IdleSession EXCEPT !.pc = "rows", !.rows = parse_csv_file(file)]
            /\ ret' = NoRet
    /\ UNCHANGED <<today, categories, transactions, settings, vfile, vrow, vline, vres, reqs>>

\* `row.get('category') and row['category'].strip()`
HasCategory(row) == ~Blank(row, "category")

\* What the session's queries see: the committed rows and its own flushed ones
Visible == categories \o imp.flushed

\* A concurrent request can commit a category of the same name between this
\* session's SELECT and its INSERT only while this session holds no write
\* lock, that is before its first flush.
RaceWindow(row) ==
    /\ validate_row(row, LineNumber(imp.idx + 1)).valid
    /\ HasCategory(row)
    /\ ~imp.inactive
    /\ imp.flushed = <<>>
    /\ get_category_by_name(Visible, strip(row["category"])) = <<>>

\* get_or_create_category without the lookup of lines 116-120
get_or_create_category_always_new(category_name) ==
    LET new_category == Category(NextId(Visible), category_name,
                            DEFAULT_CATEGORY_COLOR, DEFAULT_CATEGORY_BUDGET)
    IN  [category |-> new_category, flushed |-> Append(imp.flushed, new_category)]

\* get_or_create_category without the db.flush() of line 130: the new
\* category has no id yet when it is returned
get_or_create_category_without_flush(category_name) ==
    LET existing == get_category_by_name(Visible, category_name)
    IN  IF existing # <<>>
        THEN [category |-> Head(existing), flushed |-> imp.flushed]
        ELSE LET new_category == Category(NoId, category_name,
                                     DEFAULT_CATEGORY_COLOR, DEFAULT_CATEGORY_BUDGET)
             IN  [category |-> new_category,
                  flushed |-> Append(imp.flushed, new_category)]

\* get_or_create_category, lines 116-133, in a session that can query
get_or_create_category(category_name) ==
    LET existing == get_category_by_name(Visible, category_name)
    IN  IF existing # <<>>
        THEN [category |-> Head(existing), flushed |-> imp.flushed]
        ELSE LET new_category == Category(NextId(Visible), category_name,
                                     DEFAULT_CATEGORY_COLOR, DEFAULT_CATEGORY_BUDGET)
             IN  [category |-> new_category,
                  flushed |-> Append(imp.flushed, new_category)]

\* A Transaction dated date.today() instead of the row's date
NewTransaction_dated_today(row, category_id) ==
    Transaction(NoId, today, strip(row["description"]),
                float(strip(row["amount"])).value, category_id)

\* The Transaction built at lines 205-210; its id is assigned when it is INSERTed
NewTransaction(row, category_id) ==
    Transaction(NoId, strptime(strip(row["date"])).value, strip(row["description"]),
                float(strip(row["amount"])).value, category_id)

\* A rejected row that ends the loop (break) instead of moving on (continue)
SkipRow_breaks(error) ==
    [imp EXCEPT !.idx = Len(imp.rows), !.skipped = @ + 1, !.errors = Append(@, error)]

\* lines 192-194 and 218-220: count the row as skipped, record its error, continue
SkipRow(error) ==
    [imp EXCEPT !.idx = @ + 1, !.skipped = @ + 1, !.errors = Append(@, error)]

\* The loop body with the category of the row resolved before the row is
\* validated
ImportRow_category_first(race) ==
    /\ imp.pc = "rows"
    /\ imp.idx < Len(imp.rows)
    /\ ~race
    /\ ~imp.inactive
    /\ LET index == LineNumber(imp.idx + 1)
           row == imp.rows[imp.idx + 1]
           checked == validate_row(row, index)
           got == IF HasCategory(row)
                  THEN get_or_create_category(strip(row["category"]))
                  ELSE [category |-> Category(NoId, "", "", NoBudget), flushed |-> imp.flushed]
       IN  IF ~checked.valid
           THEN imp' = [SkipRow(checked.error) EXCEPT !.flushed = got.flushed]
           ELSE imp' = [imp EXCEPT !.idx = @ + 1, !.inserted = @ + 1,
                                   !.flushed = got.flushed,
                                   !.pending = Append(@, NewTransaction(row, got.category.id))]
    /\ UNCHANGED <<today, categories, transactions, settings, ret, pre, vfile, vrow,
                   vline, vres, reqs>>

\* One iteration of the loop of lines 187-220.  race: a concurrent request
\* commits a category named like this row's between the lookup and the flush.
ImportRow(race) ==
    /\ imp.pc = "rows"
    /\ imp.idx < Len(imp.rows)
    /\ LET index == LineNumber(imp.idx + 1)
           row == imp.rows[imp.idx + 1]
           checked == validate_row(row, index)
       IN  /\ race => RaceWindow(row)
           /\ IF ~checked.valid
              THEN /\ imp' = SkipRow(checked.error)
                   /\ UNCHANGED categories
              ELSE IF ~HasCategory(row)
              THEN /\ imp' = [imp EXCEPT !.idx = @ + 1, !.inserted = @ + 1,
                                         !.pending = Append(@, NewTransaction(row, NoId))]
                   /\ UNCHANGED categories
              ELSE IF imp.inactive
              THEN \* get_category_by_name raises PendingRollbackError
                   /\ imp' = SkipRow(Err(index, "Erreur lors de l'import - PendingRollbackError"))
                   /\ UNCHANGED categories
              ELSE IF race
              THEN \* the flush violates UNIQUE(name): the session's transaction is
                   \* rolled back and every pending object is expunged
                   /\ categories' = Append(categories,
                          Category(NextId(categories), strip(row["category"]), "#FF0000", NoBudget))
                   /\ imp' = [SkipRow(Err(index, "Erreur lors de l'import - IntegrityError"))
                                 EXCEPT !.flushed = <<>>, !.pending = <<>>, !.inactive = TRUE]
              ELSE LET got == get_or_create_category(strip(row["category"]))
                   IN  /\ imp' = [imp EXCEPT !.idx = @ + 1, !.inserted = @ + 1,
                                      !.flushed = got.flushed,
                                      !.pending = Append(@, NewTransaction(row, got.category.id))]
                       /\ UNCHANGED categories
    /\ UNCHANGED <<today, transactions, settings, ret, pre, vfile, vrow, vline, vres, reqs>>

\* The row the loop is at passes validate_row and names a category that the
\* SELECT of line 116 does not find
NeedsNewCategory ==
    /\ imp.pc = "rows"
    /\ imp.idx < Len(imp.rows)
    /\ validate_row(imp.rows[imp.idx + 1], LineNumber(imp.idx + 1)).valid
    /\ HasCategory(imp.rows[imp.idx + 1])
    /\ ~imp.inactive
    /\ get_category_by_name(Visible, strip(imp.rows[imp.idx + 1]["category"])) = <<>>

\* One iteration of the loop beside the requests of other sessions, up to the
\* SELECT of get_or_create_category: a row that needs a new category stops
\* before the db.add() and db.flush() of lines 129-130, every other row is
\* processed whole
ImportRowSelect ==
    IF NeedsNewCategory
    THEN /\ imp' = [imp EXCEPT !.pc = "flushing"]
         /\ UNCHANGED <<today, categories, transactions, settings, ret, pre, vfile,
                        vrow, vline, vres, reqs>>
    ELSE ImportRow(FALSE)

\* The rest of the iteration: the INSERT of the new category at db.flush().
\* A category of that name committed since the SELECT violates UNIQUE(name):
\* the session's transaction is rolled back, every pending object is
\* expunged, and the per-row except counts the row as skipped.
ImportRowFlush ==
    /\ imp.pc = "flushing"
    /\ LET index == LineNumber(imp.idx + 1)
           row == imp.rows[imp.idx + 1]
       IN  IF get_category_by_name(Visible, strip(row["category"])) # <<>>
           THEN imp' = [SkipRow(Err(index, "Erreur lors de l'import - IntegrityError"))
                           EXCEPT !.pc = "rows", !.flushed = <<>>, !.pending = <<>>,
                                  !.inactive = TRUE]
           ELSE LET got == get_or_create_category(strip(row["category"]))
                IN  imp' = [imp EXCEPT !.pc = "rows", !.idx = @ + 1, !.inserted = @ + 1,
                                       !.flushed = got.flushed,
                                       !.pending = Append(@, NewTransaction(row, got.category.id))]
    /\ UNCHANGED <<today, categories, transactions, settings, ret, pre, vfile, vrow,
                   vline, vres, reqs>>

\* The INSERTs of the pending transactions, in db.add() order
RECURSIVE Inserted(_, _)
Inserted(rows, pending) ==
    IF pending = <<>> THEN rows
    ELSE Inserted(Append(rows, [Head(pending) EXCEPT !.id = NextId(rows)]), Tail(pending))

\* A rollback that leaves behind the categories the session had flushed
AfterRollback_keeps_flushed ==
    [categories |-> categories \o imp.flushed, transactions |-> transactions]

\* db.rollback() of line 234: nothing the session wrote reaches the store
AfterRollback == [categories |-> categories, transactions |-> transactions]

\* The report of the commit path returned on the rollback path
RollbackReport_keeps_counters == Report(imp.inserted, imp.skipped, imp.errors)

\* The report of lines 235-239
RollbackReport == Report(0, 0, <<Err(NoLine, "Erreur lors de l'import")>>)

\* db.commit() of line 222 and what follows it.  ok: the store accepts the commit.
ImportCommit(ok) ==
    /\ imp.pc = "rows"
    /\ imp.idx = Len(imp.rows)
    /\ IF ok /\ ~imp.inactive
       THEN /\ categories' = categories \o imp.flushed
            /\ transactions' = Inserted(transactions, imp.pending)
            /\ imp' = [imp EXCEPT !.pc = "committed", !.flushed = <<>>, !.pending = <<>>]
            /\ ret' = Report(imp.inserted, imp.skipped, imp.errors)
       ELSE \* lines 232-239: db.rollback()
            /\ imp' = [imp EXCEPT !.pc = "rolled_back", !.flushed = <<>>,
                                  !.pending = <<>>, !.inactive = FALSE]
            /\ ret' = RollbackReport
            /\ categories' = AfterRollback.categories
            /\ transactions' = AfterRollback.transactions
    /\ UNCHANGED <<today, settings, pre, vfile, vrow, vline, vres, reqs>>

\* get_db's finally: the request is over and its session is closed
CloseSession ==
    /\ ret # NoRet
    /\ imp' = IdleSession
    /\ ret' = NoRet
    /\ pre' = NoStore
    /\ UNCHANGED <<today, categories, transactions, settings, vfile, vrow, vline, vres, reqs>>

---------------------------------------------------------------------------
(* create_category and create_transaction *)

\* What a call of a CRUD service did: the arguments it was given, and the
\* ValueError it raised or the id of the row it returned
Raise(op, args, msg) ==
    [op |-> op, args |-> args, raised |-> TRUE, error |-> msg, id |-> NoId]
Return(op, args, id) ==
    [op |-> op, args |-> args, raised |-> FALSE, error |-> "", id |-> id]

\* category_service.create_category
create_category(name, color, monthly_budget) ==
    /\ Idle
    /\ pre' = Store
    /\ IF get_category_by_name(categories, name) # <<>>
       THEN /\ ret' = Raise("create_category", Category(NoId, name, color, monthly_budget),
                            "Une categorie avec ce nom existe deja")
            /\ UNCHANGED categories
       ELSE /\ categories' = Append(categories,
                                Category(NextId(categories), name, color, monthly_budget))
            /\ ret' = Return("create_category", Category(NoId, name, color, monthly_budget),
                             NextId(categories))
    /\ UNCHANGED <<today, transactions, settings, imp, vfile, vrow, vline, vres, reqs>>

\* `transaction_data.amount <= 0`
ZeroAmount_or_negative(amount) == amount <= 0

\* `transaction_data.amount == 0`
ZeroAmount(amount) == amount = 0

\* transaction_service.create_transaction
create_transaction(date, description, amount, category_id) ==
    LET transaction_data == Transaction(NoId, date, description, amount, category_id)
    IN
    /\ Idle
    /\ Len(transactions) < MaxTxns
    /\ pre' = Store
    /\ IF category_id # NoId /\ ~category_exists(categories, category_id)
       THEN /\ ret' = Raise("create_transaction", transaction_data,
                            "La categorie n'existe pas")
            /\ UNCHANGED transactions
       ELSE IF date > today
       THEN /\ ret' = Raise("create_transaction", transaction_data,
                            "La date ne peut pas etre dans le futur")
            /\ UNCHANGED transactions
       ELSE IF ZeroAmount(amount)
       THEN /\ ret' = Raise("create_transaction", transaction_data,
                            "Le montant ne peux pas etre egal a 0")
            /\ UNCHANGED transactions
       ELSE /\ transactions' = Append(transactions,
                [transaction_data EXCEPT !.id = NextId(transactions)])
            /\ ret' = Return("create_transaction", transaction_data, NextId(transactions))
    /\ UNCHANGED <<today, categories, settings, imp, vfile, vrow, vline, vres, reqs>>

---------------------------------------------------------------------------
(* update_category, delete_category, update_settings *)

\* A field of a PATCH body that was not set (exclude_unset=True leaves it out)
UnsetBudget == -2

\* What a call that returns a value other than a row did
Result(op, args, value) ==
    [op |-> op, args |-> args, raised |-> FALSE, error |-> "", value |-> value]

\* get_category_by_id over the committed rows; <<>> stands for None
get_category_by_id(visible, category_id) ==
    SelectSeq(visible, LAMBDA c : c.id = category_id)

\* The fields of category_data that were set, written onto the category
Updated(category, name, monthly_budget) ==
    [category EXCEPT
        !.name = IF name = None THEN @ ELSE name,
        !.monthly_budget = IF monthly_budget = UnsetBudget THEN @ ELSE monthly_budget]

\* category_service.update_category; name = None: the name is not given
update_category(category_id, name, monthly_budget) ==
    LET found == get_category_by_id(categories, category_id)
        args == [category_id |-> category_id, name |-> name,
                 monthly_budget |-> monthly_budget]
    IN
    /\ Idle
    /\ pre' = Store
    /\ IF found = <<>>
       THEN /\ ret' = Result("update_category", args, None)
            /\ UNCHANGED categories
       ELSE IF /\ name # None
               /\ name # Head(found).name
               /\ get_category_by_name(categories, name) # <<>>
       THEN /\ ret' = Raise("update_category", args, "Une categorie avec ce nom existe deja")
            /\ UNCHANGED categories
       ELSE /\ categories' = [i \in DOMAIN categories |->
                                IF categories[i].id = category_id
                                THEN Updated(categories[i], name, monthly_budget)
                                ELSE categories[i]]
            /\ ret' = Return("update_category", args, category_id)
    /\ UNCHANGED <<today, transactions, settings, imp, vfile, vrow, vline, vres, reqs>>

\* db.delete(category) with the relationship Category.transactions: the
\* transactions of the category are kept and their category_id is set to NULL
Detached(rows, category_id) ==
    [i \in DOMAIN rows |->
        IF rows[i].category_id = category_id
        THEN [rows[i] EXCEPT !.category_id = NoId]
        ELSE rows[i]]

\* category_service.delete_category
delete_category(category_id) ==
    /\ Idle
    /\ pre' = Store
    /\ IF get_category_by_id(categories, category_id) = <<>>
       THEN /\ ret' = Result("delete_category", [category_id |-> category_id], FALSE)
            /\ UNCHANGED <<categories, transactions>>
       ELSE /\ categories' = SelectSeq(categories, LAMBDA c : c.id # category_id)
            /\ transactions' = Detached(transactions, category_id)
            /\ ret' = Result("delete_category", [category_id |-> category_id], TRUE)
    /\ UNCHANGED <<today, settings, imp, vfile, vrow, vline, vres, reqs>>

\* settings_service.get_settings: the row id = 1, made when it is missing
get_settings(rows) == IF rows = <<>> THEN Settings(NoBudget) ELSE Head(rows)

\* settings_service.update_settings with global_monthly_budget set
update_settings(global_monthly_budget) ==
    /\ Idle
    /\ pre' = Store
    /\ settings' = <<[get_settings(settings) EXCEPT
                        !.global_monthly_budget = global_monthly_budget]>>
    /\ ret' = Result("update_settings",
                     [global_monthly_budget |-> global_monthly_budget], 1)
    /\ UNCHANGED <<today, categories, transactions, imp, vfile, vrow, vline, vres, reqs>>

---------------------------------------------------------------------------
(* update_transaction *)

\* get_transaction_by_id; <<>> stands for None
get_transaction_by_id(rows, transaction_id) ==
    SelectSeq(rows, LAMBDA t : t.id = transaction_id)

\* A date check that lets every date through
InFuture_never(d) == FALSE

\* `transaction_data.date > date.today()`
InFuture(d) == d > today

\* The fields of update_data (model_dump(exclude_unset=True): the fields the
\* request set) written onto the transaction
UpdatedTransaction(transaction, update_data) ==
    [field \in DOMAIN transaction |->
        IF field \in DOMAIN update_data THEN update_data[field] ELSE transaction[field]]

\* transaction_service.update_transaction; a category_id set to NoId is a
\* category_id set to null
update_transaction(transaction_id, update_data) ==
    LET found == get_transaction_by_id(transactions, transaction_id)
        args == [transaction_id |-> transaction_id, update_data |-> update_data]
    IN
    /\ Idle
    /\ pre' = Store
    /\ IF found = <<>>
       THEN /\ ret' = Result("update_transaction", args, None)
            /\ UNCHANGED transactions
       ELSE IF /\ "category_id" \in DOMAIN update_data
               /\ update_data["category_id"] # NoId
               /\ ~category_exists(categories, update_data["category_id"])
       THEN /\ ret' = Raise("update_transaction", args, "La categorie n'existe pas")
            /\ UNCHANGED transactions
       ELSE IF "date" \in DOMAIN update_data /\ InFuture(update_data["date"])
       THEN /\ ret' = Raise("update_transaction", args,
                            "La date ne peut pas etre dans le futur")
            /\ UNCHANGED transactions
       ELSE IF "amount" \in DOMAIN update_data /\ ZeroAmount(update_data["amount"])
       THEN /\ ret' = Raise("update_transaction", args,
                            "Le montant ne peut pas etre exactement 0")
            /\ UNCHANGED transactions
       ELSE /\ transactions' = [i \in DOMAIN transactions |->
                                  IF transactions[i].id = transaction_id
                                  THEN UpdatedTransaction(transactions[i], update_data)
                                  ELSE transactions[i]]
            /\ ret' = Return("update_transaction", args, transaction_id)
    /\ UNCHANGED <<today, categories, settings, imp, vfile, vrow, vline, vres, reqs>>

\* transaction_service.delete_transaction
delete_transaction(transaction_id) ==
    LET args == [transaction_id |-> transaction_id]
    IN
    /\ Idle
    /\ pre' = Store
    /\ IF get_transaction_by_id(transactions, transaction_id) = <<>>
       THEN /\ ret' = Result("delete_transaction", args, FALSE)
            /\ UNCHANGED transactions
       ELSE /\ transactions' = SelectSeq(transactions, LAMBDA t : t.id # transaction_id)
            /\ ret' = Result("delete_transaction", args, TRUE)
    /\ UNCHANGED <<today, categories, settings, imp, vfile, vrow, vline, vres, reqs>>

---------------------------------------------------------------------------
(* alert_service *)

\* The dict of an alert: budget and actual are doubles, and the delta is
\* their difference in double precision; each is rounded at emission
Alert(scope, category, budget, actual) ==
    [scope |-> scope, category |-> category, budget |-> round2(budget),
     actual |-> round2(actual), delta |-> round2(FloatSub(actual, budget))]

\* `budget is None or budget == 0`
NotConfigured(budget) == budget = NoBudget \/ budget = 0

\* _check_global_budget alerting when the spending reaches the budget
check_global_budget_at_or_above(sets, rows, y, m) ==
    LET global_budget == get_settings(sets).global_monthly_budget
        actual_spending == get_monthly_total(rows, y, m, NoId)
    IN  IF NotConfigured(global_budget) THEN <<>>
        ELSE IF ~FloatGreater(Real(global_budget), actual_spending)
        THEN <<Alert("global", None, Real(global_budget), actual_spending)>>
        ELSE <<>>

\* alert_service._check_global_budget
check_global_budget(sets, rows, y, m) ==
    LET global_budget == get_settings(sets).global_monthly_budget
        actual_spending == get_monthly_total(rows, y, m, NoId)
    IN  IF NotConfigured(global_budget) THEN <<>>
        ELSE IF FloatGreater(actual_spending, Real(global_budget))
        THEN <<Alert("global", None, Real(global_budget), actual_spending)>>
        ELSE <<>>

\* The loop of _check_category_budgets skipping only an absent budget
RECURSIVE CategoryAlerts_unless_absent(_, _)
CategoryAlerts_unless_absent(cats, actual_by_category) ==
    IF cats = <<>> THEN <<>>
    ELSE LET category == Head(cats)
             actual_spending == DictGet(actual_by_category, category.name, Zero(FALSE))
         IN  IF category.monthly_budget = NoBudget
             THEN CategoryAlerts_unless_absent(Tail(cats), actual_by_category)
             ELSE IF FloatGreater(actual_spending, Real(category.monthly_budget))
             THEN <<Alert("category", category.name, Real(category.monthly_budget),
                          actual_spending)>>
                  \o CategoryAlerts_unless_absent(Tail(cats), actual_by_category)
             ELSE CategoryAlerts_unless_absent(Tail(cats), actual_by_category)

\* The loop of alert_service._check_category_budgets over get_all_categories
RECURSIVE CategoryAlerts(_, _)
CategoryAlerts(cats, actual_by_category) ==
    IF cats = <<>> THEN <<>>
    ELSE LET category == Head(cats)
             actual_spending == DictGet(actual_by_category, category.name, Zero(FALSE))
         IN  IF NotConfigured(category.monthly_budget)
             THEN CategoryAlerts(Tail(cats), actual_by_category)
             ELSE IF FloatGreater(actual_spending, Real(category.monthly_budget))
             THEN <<Alert("category", category.name, Real(category.monthly_budget),
                          actual_spending)>>
                  \o CategoryAlerts(Tail(cats), actual_by_category)
             ELSE CategoryAlerts(Tail(cats), actual_by_category)

\* alert_service._check_category_budgets
check_category_budgets(cats, rows, y, m) ==
    CategoryAlerts(cats, get_total_by_category(cats, rows, y, m))

\* alert_service.get_budget_alerts: the list under the key "alerts"
get_budget_alerts(sets, cats, rows, y, m) ==
    check_global_budget(sets, rows, y, m) \o check_category_budgets(cats, rows, y, m)

---------------------------------------------------------------------------
(* get_settings, update_settings and get_budget_alerts as requests *)

\* A request of another session that is over: what it returned, or the
\* exception that left it
Returned(op, args, value) ==
    [pc |-> "done", op |-> op, args |-> args, raised |-> FALSE, error |-> "", value |-> value]
Failed(op, args, error) ==
    [pc |-> "done", op |-> op, args |-> args, raised |-> TRUE, error |-> error, value |-> None]

\* The rest of the state, for the steps of the other sessions
Frame == <<today, imp, ret, pre, vfile, vrow, vline, vres>>

\* SQLite has one writer at a time: from its first flush to its commit or
\* rollback the importing session holds the write lock, and the commit of
\* another session waits for it
NoWriteLock == imp.flushed = <<>>

\* An INSERT of the settings row on a table without the primary key
InsertSettings_unconstrained(rows) == Value(Append(rows, Settings(NoBudget)))

\* INSERT INTO settings (id, global_monthly_budget) VALUES (1, NULL): the
\* primary key refuses a second row id = 1
InsertSettings(rows) ==
    IF rows = <<>> THEN Value(<<Settings(NoBudget)>>) ELSE Raised

\* get_settings, line 14, for the request `op` of session s: the SELECT.
\* loaded is the Settings object the request holds: the row the SELECT
\* returned, or the one line 16 builds when there is none.
SettingsQuery(s, op, args) ==
    /\ reqs[s] = IdleRequest
    /\ reqs' = [reqs EXCEPT ![s] =
                  [pc |-> IF settings = <<>> THEN "adding" ELSE "loaded",
                   op |-> op, args |-> args,
                   loaded |-> IF settings = <<>> THEN Settings(NoBudget)
                              ELSE Head(settings)]]
    /\ UNCHANGED <<categories, transactions, settings>>
    /\ UNCHANGED Frame

\* get_settings, lines 17-18: db.add and db.commit.  No except clause
\* surrounds them: an IntegrityError leaves the request.
SettingsInsert(s) ==
    /\ reqs[s].pc = "adding"
    /\ reqs[s].op \in {"get_settings", "update_settings", "get_budget_alerts"}
    /\ NoWriteLock
    /\ LET inserted == InsertSettings(settings)
       IN  IF inserted.raised
           THEN /\ reqs' = [reqs EXCEPT ![s] =
                              Failed(reqs[s].op, reqs[s].args, "IntegrityError")]
                /\ UNCHANGED settings
           ELSE /\ reqs' = [reqs EXCEPT ![s].pc = "inserted"]
                /\ settings' = inserted.value
    /\ UNCHANGED <<categories, transactions>>
    /\ UNCHANGED Frame

\* get_settings, line 19: db.refresh(settings), a SELECT of the row as it is
\* stored by then; the object the request holds takes its values
SettingsRefresh(s) ==
    /\ reqs[s].pc = "inserted"
    /\ reqs' = [reqs EXCEPT ![s] =
                  IF settings = <<>>
                  THEN Failed(reqs[s].op, reqs[s].args, "InvalidRequestError")
                  ELSE [reqs[s] EXCEPT !.pc = "loaded", !.loaded = Head(settings)]]
    /\ UNCHANGED <<categories, transactions, settings>>
    /\ UNCHANGED Frame

\* get_settings, line 20, of a GET /settings: return the object the request holds
SettingsReturn(s) ==
    /\ reqs[s].pc = "loaded"
    /\ reqs[s].op = "get_settings"
    /\ reqs' = [reqs EXCEPT ![s] = Returned("get_settings", reqs[s].args, reqs[s].loaded)]
    /\ UNCHANGED <<categories, transactions, settings>>
    /\ UNCHANGED Frame

\* update_settings, lines 29-35: setattr on the object get_settings gave, and
\* db.commit.  The commit emits an UPDATE only when the budget set differs
\* from the one the object holds, and does not write otherwise; an UPDATE
\* that matches no row is a StaleDataError.
SettingsUpdate(s) ==
    /\ reqs[s].pc = "loaded"
    /\ reqs[s].op = "update_settings"
    /\ LET written == reqs[s].args.global_monthly_budget
                        # reqs[s].loaded.global_monthly_budget
       IN  /\ written => NoWriteLock
           /\ IF written /\ settings = <<>>
              THEN /\ reqs' = [reqs EXCEPT ![s] =
                                 Failed("update_settings", reqs[s].args, "StaleDataError")]
                   /\ UNCHANGED settings
              ELSE /\ reqs' = [reqs EXCEPT ![s].pc = "updated"]
                   /\ settings' =
                        IF written
                        THEN <<[Head(settings) EXCEPT !.global_monthly_budget =
                                    reqs[s].args.global_monthly_budget]>>
                        ELSE settings
    /\ UNCHANGED <<categories, transactions>>
    /\ UNCHANGED Frame

\* update_settings, lines 36-37: db.refresh(settings) and the return of the
\* row as it is stored by then
SettingsUpdateRefresh(s) ==
    /\ reqs[s].pc = "updated"
    /\ reqs[s].op = "update_settings"
    /\ reqs' = [reqs EXCEPT ![s] =
                  IF settings = <<>>
                  THEN Failed("update_settings", reqs[s].args, "InvalidRequestError")
                  ELSE Returned("update_settings", reqs[s].args, Head(settings))]
    /\ UNCHANGED <<categories, transactions, settings>>
    /\ UNCHANGED Frame

\* _check_global_budget after its get_settings, lines 54-74, in session s:
\* get_monthly_total is queried only when a global budget is configured
AlertsGlobal(s) ==
    /\ reqs[s].pc = "loaded"
    /\ reqs[s].op = "get_budget_alerts"
    /\ reqs' = [reqs EXCEPT ![s] =
                  [pc |-> "global_checked", op |-> reqs[s].op, args |-> reqs[s].args,
                   alerts |-> check_global_budget(<<reqs[s].loaded>>, transactions,
                                                  reqs[s].args.year, reqs[s].args.month)]]
    /\ UNCHANGED <<categories, transactions, settings>>
    /\ UNCHANGED Frame

\* _check_category_budgets, line 82: get_all_categories
AlertsCategories(s) ==
    /\ reqs[s].pc = "global_checked"
    /\ reqs' = [reqs EXCEPT ![s] =
                  [pc |-> "categories_loaded", op |-> reqs[s].op, args |-> reqs[s].args,
                   alerts |-> reqs[s].alerts, categories |-> categories]]
    /\ UNCHANGED <<categories, transactions, settings>>
    /\ UNCHANGED Frame

\* get_total_by_category called at line 83, its first query (lines 199-212
\* of transaction_service.py): the totals of the categories
AlertsGrouped(s) ==
    /\ reqs[s].pc = "categories_loaded"
    /\ reqs' = [reqs EXCEPT ![s] =
                  [pc |-> "grouped", op |-> reqs[s].op, args |-> reqs[s].args,
                   alerts |-> reqs[s].alerts, categories |-> reqs[s].categories,
                   totals |-> GroupedTotals(categories, transactions,
                                            reqs[s].args.year, reqs[s].args.month)]]
    /\ UNCHANGED <<categories, transactions, settings>>
    /\ UNCHANGED Frame

\* get_total_by_category, its second query (lines 215-224), on the store as
\* it is by then; then the loop of _check_category_budgets, lines 86-104,
\* over the categories loaded at line 82, and the return of get_budget_alerts
AlertsUncategorized(s) ==
    /\ reqs[s].pc = "grouped"
    /\ reqs' = [reqs EXCEPT ![s] =
                  Returned("get_budget_alerts", reqs[s].args,
                           reqs[s].alerts \o
                           CategoryAlerts(reqs[s].categories,
                               AddUncategorized(reqs[s].totals, transactions,
                                   reqs[s].args.year, reqs[s].args.month)))]
    /\ UNCHANGED <<categories, transactions, settings>>
    /\ UNCHANGED Frame

\* The request of session s is over and its session is closed
EndRequest(s) ==
    /\ reqs[s].pc = "done"
    /\ reqs' = [reqs EXCEPT ![s] = IdleRequest]
    /\ UNCHANGED <<categories, transactions, settings>>
    /\ UNCHANGED Frame

---------------------------------------------------------------------------
(* create_category and update_category as requests of other sessions *)

\* An INSERT into categories on a table without the unique index on name
InsertCategory_no_unique_index(rows, name, color, monthly_budget) ==
    Value(Append(rows, Category(NextId(rows), name, color, monthly_budget)))

\* INSERT INTO categories: Category.name is unique (models/category.py line
\* 19), and the violation is an IntegrityError
InsertCategory(rows, name, color, monthly_budget) ==
    IF get_category_by_name(rows, name) # <<>> THEN Raised
    ELSE Value(Append(rows, Category(NextId(rows), name, color, monthly_budget)))

\* UPDATE categories SET name = ... WHERE id = category_id, under the same index
RenameCategory(rows, category_id, name) ==
    IF \E i \in DOMAIN rows : rows[i].name = name /\ rows[i].id # category_id
    THEN Raised
    ELSE Value([i \in DOMAIN rows |->
                    IF rows[i].id = category_id THEN [rows[i] EXCEPT !.name = name]
                    ELSE rows[i]])

\* create_category, lines 37-39, in session s: the lookup by name
CreateCategoryQuery(s, name) ==
    /\ reqs[s] = IdleRequest
    /\ reqs' = [reqs EXCEPT ![s] =
                  IF get_category_by_name(categories, name) # <<>>
                  THEN Failed("create_category", [name |-> name], "ValueError")
                  ELSE [pc |-> "adding", op |-> "create_category", args |-> [name |-> name]]]
    /\ UNCHANGED <<categories, transactions, settings>>
    /\ UNCHANGED Frame

\* create_category, lines 42-46 and 50-53: add and commit; IntegrityError is
\* caught, rolled back and raised again as ValueError.  id is the primary key
\* the INSERT gave the object.
CreateCategoryCommit(s) ==
    /\ reqs[s].pc = "adding"
    /\ reqs[s].op = "create_category"
    /\ NoWriteLock
    /\ LET inserted == InsertCategory(categories, reqs[s].args.name, "#FF0000", NoBudget)
       IN  IF inserted.raised
           THEN /\ reqs' = [reqs EXCEPT ![s] =
                              Failed("create_category", reqs[s].args,
                                     "ValueError from IntegrityError")]
                /\ UNCHANGED categories
           ELSE /\ categories' = inserted.value
                /\ reqs' = [reqs EXCEPT ![s] =
                              [pc |-> "added", op |-> "create_category",
                               args |-> reqs[s].args, id |-> NextId(categories)]]
    /\ UNCHANGED <<transactions, settings>>
    /\ UNCHANGED Frame

\* create_category, lines 47-48: db.refresh(new_category), a SELECT by the
\* primary key on the store as it is by then, and the return of the row; a
\* refresh that finds no row is an InvalidRequestError, which is not caught
CreateCategoryRefresh(s) ==
    /\ reqs[s].pc = "added"
    /\ reqs[s].op = "create_category"
    /\ LET stored == get_category_by_id(categories, reqs[s].id)
       IN  reqs' = [reqs EXCEPT ![s] =
                      IF stored = <<>>
                      THEN Failed("create_category", reqs[s].args, "InvalidRequestError")
                      ELSE Returned("create_category", reqs[s].args, Head(stored))]
    /\ UNCHANGED <<categories, transactions, settings>>
    /\ UNCHANGED Frame

\* update_category, lines 61-66, in session s, with a name: the lookup by id.
\* loaded is the Category object the request holds; the lookup by name is
\* made only when the name given differs from the name of that object.
UpdateCategoryQuery(s, category_id, name) ==
    LET found == get_category_by_id(categories, category_id)
        args == [category_id |-> category_id, name |-> name]
    IN
    /\ reqs[s] = IdleRequest
    /\ reqs' = [reqs EXCEPT ![s] =
                  IF found = <<>> THEN Returned("update_category", args, None)
                  ELSE [pc |-> IF name # Head(found).name THEN "checking" ELSE "renaming",
                        op |-> "update_category", args |-> args, loaded |-> Head(found)]]
    /\ UNCHANGED <<categories, transactions, settings>>
    /\ UNCHANGED Frame

\* update_category, lines 67-69: the lookup by name, on the store as it is by
\* then; a row of that name, the category itself included when another
\* request has renamed it meanwhile, is a ValueError
UpdateCategoryCheck(s) ==
    /\ reqs[s].pc = "checking"
    /\ reqs[s].op = "update_category"
    /\ reqs' = [reqs EXCEPT ![s] =
                  IF get_category_by_name(categories, reqs[s].args.name) # <<>>
                  THEN Failed("update_category", reqs[s].args, "ValueError")
                  ELSE [reqs[s] EXCEPT !.pc = "renaming"]]
    /\ UNCHANGED <<categories, transactions, settings>>
    /\ UNCHANGED Frame

\* update_category, lines 72-77 and 80-82: setattr and commit.  The commit
\* emits an UPDATE only when the name set differs from the one the object
\* holds, and does not write otherwise.  An UPDATE that matches no row is a
\* StaleDataError, which is not caught; IntegrityError is caught, rolled back
\* and raised again as ValueError.
UpdateCategoryCommit(s) ==
    /\ reqs[s].pc = "renaming"
    /\ LET category_id == reqs[s].args.category_id
           stored == get_category_by_id(categories, category_id)
           renamed == RenameCategory(categories, category_id, reqs[s].args.name)
       IN  IF reqs[s].args.name = reqs[s].loaded.name
           THEN /\ reqs' = [reqs EXCEPT ![s].pc = "renamed"]
                /\ UNCHANGED categories
           ELSE /\ NoWriteLock
                /\ IF stored = <<>>
                   THEN /\ reqs' = [reqs EXCEPT ![s] =
                                      Failed("update_category", reqs[s].args,
                                             "StaleDataError")]
                        /\ UNCHANGED categories
                   ELSE IF renamed.raised
                   THEN /\ reqs' = [reqs EXCEPT ![s] =
                                      Failed("update_category", reqs[s].args,
                                             "ValueError from IntegrityError")]
                        /\ UNCHANGED categories
                   ELSE /\ categories' = renamed.value
                        /\ reqs' = [reqs EXCEPT ![s].pc = "renamed"]
    /\ UNCHANGED <<transactions, settings>>
    /\ UNCHANGED Frame

\* update_category, lines 78-79: db.refresh(category) on the store as it is
\* by then, and the return of the row; a refresh that finds no row is an
\* InvalidRequestError, which is not caught
UpdateCategoryRefresh(s) ==
    /\ reqs[s].pc = "renamed"
    /\ LET stored == get_category_by_id(categories, reqs[s].args.category_id)
       IN  reqs' = [reqs EXCEPT ![s] =
                      IF stored = <<>>
                      THEN Failed("update_category", reqs[s].args, "InvalidRequestError")
                      ELSE Returned("update_category", reqs[s].args, Head(stored))]
    /\ UNCHANGED <<categories, transactions, settings>>
    /\ UNCHANGED Frame

---------------------------------------------------------------------------
(* create_transaction, update_transaction, delete_transaction and           *)
(* delete_category as requests of other sessions                            *)

\* The INSERT of a transaction: database.py issues no PRAGMA foreign_keys, so
\* SQLite does not check category_id against the categories table
InsertTransaction(rows, transaction) ==
    Append(rows, [transaction EXCEPT !.id = NextId(rows)])

\* create_transaction, lines 46-56, in session s: category_exists and the
\* checks of the date and of the amount
CreateTransactionQuery(s, date, amount, category_id) ==
    LET transaction_data == Transaction(NoId, date, "Test", amount, category_id)
    IN
    /\ reqs[s] = IdleRequest
    /\ reqs' = [reqs EXCEPT ![s] =
                  IF \/ category_id # NoId /\ ~category_exists(categories, category_id)
                     \/ date > today
                     \/ ZeroAmount(amount)
                  THEN Failed("create_transaction", transaction_data, "ValueError")
                  ELSE [pc |-> "adding", op |-> "create_transaction",
                        args |-> transaction_data]]
    /\ UNCHANGED <<categories, transactions, settings>>
    /\ UNCHANGED Frame

\* create_transaction, lines 60-69: add and commit.  id is the primary key
\* the INSERT gave the object.
CreateTransactionCommit(s) ==
    /\ reqs[s].pc = "adding"
    /\ reqs[s].op = "create_transaction"
    /\ NoWriteLock
    /\ Len(transactions) + Len(imp.pending) < MaxTxns
    /\ transactions' = InsertTransaction(transactions, reqs[s].args)
    /\ reqs' = [reqs EXCEPT ![s] =
                  [pc |-> "added", op |-> "create_transaction", args |-> reqs[s].args,
                   id |-> NextId(transactions)]]
    /\ UNCHANGED <<categories, settings>>
    /\ UNCHANGED Frame

\* create_transaction, lines 70-71: db.refresh(new_transaction) on the store
\* as it is by then, and the return of the row; a refresh that finds no row
\* is an InvalidRequestError, which is not caught
CreateTransactionRefresh(s) ==
    /\ reqs[s].pc = "added"
    /\ reqs[s].op = "create_transaction"
    /\ LET stored == get_transaction_by_id(transactions, reqs[s].id)
       IN  reqs' = [reqs EXCEPT ![s] =
                      IF stored = <<>>
                      THEN Failed("create_transaction", reqs[s].args,
                                  "InvalidRequestError")
                      ELSE Returned("create_transaction", reqs[s].args, Head(stored))]
    /\ UNCHANGED <<categories, transactions, settings>>
    /\ UNCHANGED Frame

\* delete_category, lines 91-94, in session s: the lookup by id
DeleteCategoryQuery(s, category_id) ==
    LET args == [category_id |-> category_id]
    IN
    /\ reqs[s] = IdleRequest
    /\ reqs' = [reqs EXCEPT ![s] =
                  IF get_category_by_id(categories, category_id) = <<>>
                  THEN Returned("delete_category", args, FALSE)
                  ELSE [pc |-> "deleting", op |-> "delete_category", args |-> args]]
    /\ UNCHANGED <<categories, transactions, settings>>
    /\ UNCHANGED Frame

\* delete_category, lines 97-98: db.delete, and the first statement of the
\* flush of db.commit, which loads Category.transactions: the transactions
\* that have the category as they are stored by then.  children is the set of
\* their ids.
DeleteCategoryLoad(s) ==
    /\ reqs[s].pc = "deleting"
    /\ reqs[s].op = "delete_category"
    /\ reqs' = [reqs EXCEPT ![s] =
                  [pc |-> "flushing", op |-> "delete_category", args |-> reqs[s].args,
                   children |-> {transactions[i].id : i \in
                                   {j \in DOMAIN transactions :
                                      transactions[j].category_id
                                        = reqs[s].args.category_id}}]]
    /\ UNCHANGED <<categories, transactions, settings>>
    /\ UNCHANGED Frame

\* UPDATE transactions SET category_id = NULL WHERE id = ..., for each of the
\* transactions loaded
Nullified(rows, children) ==
    [i \in DOMAIN rows |->
        IF rows[i].id \in children THEN [rows[i] EXCEPT !.category_id = NoId]
        ELSE rows[i]]

\* delete_category, lines 98-102: the rest of the flush and the commit.  The
\* transactions loaded get category_id NULL by their id, whatever category
\* they have by then; when one of them is stored no more the UPDATE matches
\* fewer rows than were loaded, which is a StaleDataError, caught by line 100,
\* rolled back and raised again as ValueError.  Then the category is deleted;
\* a DELETE that matches no row, because another request has deleted the
\* category meanwhile, is only a warning.
DeleteCategoryCommit(s) ==
    /\ reqs[s].pc = "flushing"
    /\ NoWriteLock
    /\ IF reqs[s].children \subseteq {transactions[i].id : i \in DOMAIN transactions}
       THEN /\ transactions' = Nullified(transactions, reqs[s].children)
            /\ categories' = SelectSeq(categories,
                                       LAMBDA c : c.id # reqs[s].args.category_id)
            /\ reqs' = [reqs EXCEPT ![s] = Returned("delete_category", reqs[s].args, TRUE)]
       ELSE /\ reqs' = [reqs EXCEPT ![s] =
                          Failed("delete_category", reqs[s].args,
                                 "ValueError from StaleDataError")]
            /\ UNCHANGED <<categories, transactions>>
    /\ UNCHANGED settings
    /\ UNCHANGED Frame

\* The checks of lines 93-98 of update_transaction on the fields that are set
InvalidUpdate(update_data) ==
    \/ "date" \in DOMAIN update_data /\ InFuture(update_data["date"])
    \/ "amount" \in DOMAIN update_data /\ ZeroAmount(update_data["amount"])

\* update_transaction, lines 83-88, in session s: the lookup by id.  loaded
\* is the Transaction object the request holds.  category_exists is queried
\* only for a category_id that is set and not null; without that query the
\* checks of lines 93-98 follow at once.
UpdateTransactionQuery(s, transaction_id, update_data) ==
    LET found == get_transaction_by_id(transactions, transaction_id)
        args == [transaction_id |-> transaction_id, update_data |-> update_data]
    IN
    /\ reqs[s] = IdleRequest
    /\ reqs' = [reqs EXCEPT ![s] =
                  IF found = <<>> THEN Returned("update_transaction", args, None)
                  ELSE IF /\ "category_id" \in DOMAIN update_data
                          /\ update_data["category_id"] # NoId
                  THEN [pc |-> "checking", op |-> "update_transaction", args |-> args,
                        loaded |-> Head(found)]
                  ELSE IF InvalidUpdate(update_data)
                  THEN Failed("update_transaction", args, "ValueError")
                  ELSE [pc |-> "updating", op |-> "update_transaction", args |-> args,
                        loaded |-> Head(found)]]
    /\ UNCHANGED <<categories, transactions, settings>>
    /\ UNCHANGED Frame

\* update_transaction, lines 89-98: category_exists on the store as it is by
\* then, and the checks of the date and of the amount
UpdateTransactionCheck(s) ==
    /\ reqs[s].pc = "checking"
    /\ reqs[s].op = "update_transaction"
    /\ reqs' = [reqs EXCEPT ![s] =
                  IF \/ ~category_exists(categories,
                                         reqs[s].args.update_data["category_id"])
                     \/ InvalidUpdate(reqs[s].args.update_data)
                  THEN Failed("update_transaction", reqs[s].args, "ValueError")
                  ELSE [reqs[s] EXCEPT !.pc = "updating"]]
    /\ UNCHANGED <<categories, transactions, settings>>
    /\ UNCHANGED Frame

\* update_transaction, lines 101-107: setattr and commit.  The UPDATE sets
\* the columns whose value differs from the one the object holds, and is not
\* emitted when there is none; an UPDATE that matches no row is a
\* StaleDataError, which is not caught.  SQLite does not check category_id.
UpdateTransactionCommit(s) ==
    /\ reqs[s].pc = "updating"
    /\ LET transaction_id == reqs[s].args.transaction_id
           update_data == reqs[s].args.update_data
           changed == {field \in DOMAIN update_data :
                          update_data[field] # reqs[s].loaded[field]}
           written == [field \in changed |-> update_data[field]]
           stored == get_transaction_by_id(transactions, transaction_id)
       IN  IF changed = {}
           THEN /\ reqs' = [reqs EXCEPT ![s].pc = "updated"]
                /\ UNCHANGED transactions
           ELSE /\ NoWriteLock
                /\ IF stored = <<>>
                   THEN /\ reqs' = [reqs EXCEPT ![s] =
                                      Failed("update_transaction", reqs[s].args,
                                             "StaleDataError")]
                        /\ UNCHANGED transactions
                   ELSE /\ transactions' =
                              [i \in DOMAIN transactions |->
                                  IF transactions[i].id = transaction_id
                                  THEN UpdatedTransaction(transactions[i], written)
                                  ELSE transactions[i]]
                        /\ reqs' = [reqs EXCEPT ![s].pc = "updated"]
    /\ UNCHANGED <<categories, settings>>
    /\ UNCHANGED Frame

\* update_transaction, lines 108-109: db.refresh(transaction) on the store as
\* it is by then, and the return of the row; a refresh that finds no row is
\* an InvalidRequestError, which is not caught
UpdateTransactionRefresh(s) ==
    /\ reqs[s].pc = "updated"
    /\ reqs[s].op = "update_transaction"
    /\ LET stored == get_transaction_by_id(transactions, reqs[s].args.transaction_id)
       IN  reqs' = [reqs EXCEPT ![s] =
                      IF stored = <<>>
                      THEN Failed("update_transaction", reqs[s].args,
                                  "InvalidRequestError")
                      ELSE Returned("update_transaction", reqs[s].args, Head(stored))]
    /\ UNCHANGED <<categories, transactions, settings>>
    /\ UNCHANGED Frame

\* delete_transaction, lines 120-122, in session s: the lookup by id
DeleteTransactionQuery(s, transaction_id) ==
    LET args == [transaction_id |-> transaction_id]
    IN
    /\ reqs[s] = IdleRequest
    /\ reqs' = [reqs EXCEPT ![s] =
                  IF get_transaction_by_id(transactions, transaction_id) = <<>>
                  THEN Returned("delete_transaction", args, FALSE)
                  ELSE [pc |-> "deleting", op |-> "delete_transaction", args |-> args]]
    /\ UNCHANGED <<categories, transactions, settings>>
    /\ UNCHANGED Frame

\* delete_transaction, lines 124-126: db.delete and commit; a DELETE that
\* matches no row, because another request has deleted the transaction
\* meanwhile, is only a warning
DeleteTransactionCommit(s) ==
    /\ reqs[s].pc = "deleting"
    /\ reqs[s].op = "delete_transaction"
    /\ NoWriteLock
    /\ transactions' = SelectSeq(transactions,
                                 LAMBDA t : t.id # reqs[s].args.transaction_id)
    /\ reqs' = [reqs EXCEPT ![s] = Returned("delete_transaction", reqs[s].args, TRUE)]
    /\ UNCHANGED <<categories, settings>>
    /\ UNCHANGED Frame

---------------------------------------------------------------------------
(* Inputs *)

RECURSIVE SeqsUpTo(_, _)
SeqsUpTo(S, n) ==
    IF n = 0 THEN {<<>>}
    ELSE LET shorter == SeqsUpTo(S, n - 1)
         IN  shorter \cup {Append(q, x) : q \in shorter, x \in S}

Lines ==
    { <<"2025-01-15", "Courses", "45.50", "Alimentation">>,
      <<" 2025-02-10 ", " Courses ", "-25.00", " Transport ">>,
      <<"2025-01-15", "Courses", " 60 ", "">>,
      <<"2025-01-15", "Courses", "-25.00", "Transport">>,
      <<"2025-13-45", "Courses", "45.50", "Loisirs">> }

File(utf8, header, lines) == [utf8 |-> utf8, header |-> header, lines |-> lines]

Files ==
    {File(TRUE, COLUMNS, lines) : lines \in SeqsUpTo(Lines, MaxRows)}
    \cup {File(TRUE, <<"date", "description">>, lines) :
            lines \in SeqsUpTo({<<"2025-01-15", "Courses">>}, MaxRows) \ {<<>>}}
    \cup {File(FALSE, <<>>, <<>>)}

CategoryNames == {"Alimentation", "Transport"}
TransactionDates == {20250115, 20250210}
TransactionAmounts == {0, -25000}
CategoryIds == {NoId, 1}

NoFile == File(FALSE, <<>>, <<>>)
NoRow == [c \in {} |-> None]
NoResult == [valid |-> FALSE, error |-> Err(NoLine, "")]

---------------------------------------------------------------------------
(* The ledger with one request at a time *)

Init ==
    /\ today \in Days
    /\ categories = <<>>
    /\ transactions = <<>>
    /\ settings = <<Settings(NoBudget)>>
    /\ imp = IdleSession
    /\ ret = NoRet
    /\ pre = NoStore
    /\ vfile = NoFile
    /\ vrow = NoRow
    /\ vline = 0
    /\ vres = NoResult
    /\ reqs = NoRequests

Next ==
    \/ \E file \in Files : ImportBegin(file)
    \/ ImportRow(FALSE)
    \/ \E ok \in BOOLEAN : ImportCommit(ok)
    \/ CloseSession
    \/ \E name \in CategoryNames : create_category(name, "#FF0000", NoBudget)
    \/ \E date \in TransactionDates, amount \in TransactionAmounts,
          category_id \in CategoryIds :
            create_transaction(date, "Test", amount, category_id)

Spec == Init /\ [][Next]_vars

\* The same ledger beside a concurrent request that creates categories
NextRace ==
    \/ \E file \in Files : ImportBegin(file)
    \/ \E race \in BOOLEAN : ImportRow(race)
    \/ \E ok \in BOOLEAN : ImportCommit(ok)
    \/ CloseSession
    \/ \E name \in CategoryNames : create_category(name, "#FF0000", NoBudget)
    \/ \E date \in TransactionDates, amount \in TransactionAmounts,
          category_id \in CategoryIds :
            create_transaction(date, "Test", amount, category_id)

SpecRace == Init /\ [][NextRace]_vars

---------------------------------------------------------------------------
(* validate_row on every combination of cells, and the import of a file    *)
(* whose data rows all hold those cells                                    *)

DateCells == {"2025-01-15", " 2025-02-10 ", "2025-1-5", "2099-12-31",
              "2025-13-45", "INVALIDE", "", "   "}
DescriptionCells == {"Courses", " Courses ", "", "   "}
AmountCells == {"45.50", "-25.00", " 60 ", "0.00", "-0.0", "INVALIDE", "", "   "}
Headers == {COLUMNS, <<"date", "description", "amount">>, <<"date", "description">>,
            <<"date", "amount">>, <<"description", "amount">>}

Cells(date, description, amount) ==
    [c \in Range(COLUMNS) |->
        CASE c = "date" -> date
          [] c = "description" -> description
          [] c = "amount" -> amount
          [] OTHER -> "Transport"]

\* A file of n data rows, each holding under every header column its cell
FileOf(header, cells, n) ==
    File(TRUE, header, [i \in 1..n |-> [k \in DOMAIN header |-> cells[header[k]]]])

ValidateFiles ==
    {FileOf(header, Cells(date, description, amount), n) :
        header \in Headers, date \in DateCells, description \in DescriptionCells,
        amount \in AmountCells, n \in 1..MaxRows}

InitValidate ==
    /\ today \in Days
    /\ categories = <<>>
    /\ transactions = <<>>
    /\ settings = <<Settings(NoBudget)>>
    /\ imp = IdleSession
    /\ ret = NoRet
    /\ pre = NoStore
    /\ vfile \in ValidateFiles
    /\ vrow = parse_csv_file(vfile)[1]
    /\ vline \in {2, MaxRows + 1}
    /\ vres = NoResult
    /\ reqs = NoRequests

\* A call validate_row(vrow, vline)
Validate ==
    /\ vres = NoResult
    /\ vres' = validate_row(vrow, vline)
    /\ UNCHANGED <<today, categories, transactions, settings, imp, ret, pre, vfile, vrow, vline,
                   reqs>>

NextValidate ==
    \/ Validate
    \/ (vres # NoResult /\ ImportBegin(vfile))
    \/ ImportRow(FALSE)
    \/ ImportCommit(TRUE)

SpecValidate == InitValidate /\ [][NextValidate]_vars

---------------------------------------------------------------------------
(* The ledger under category creation, rename and deletion, transaction     *)
(* creation and import, with a category that may be named like the key of  *)
(* the transactions without category                                       *)

LedgerNames == {"Alimentation", UNCATEGORIZED}
LedgerDates == {20250115, 20250210}
LedgerAmounts == {45500, -25000}
LedgerCategoryIds == {NoId, 1, 2}
LedgerFiles ==
    {File(TRUE, COLUMNS, <<<<"2025-01-15", "Courses", "45.50", UNCATEGORIZED>>>>),
     File(TRUE, COLUMNS, <<<<"2025-01-15", "Courses", "-25.00", "">>>>)}

InitLedger ==
    /\ today = 20250228
    /\ categories = <<>>
    /\ transactions = <<>>
    /\ settings = <<Settings(NoBudget)>>
    /\ imp = IdleSession
    /\ ret = NoRet
    /\ pre = NoStore
    /\ vfile = NoFile
    /\ vrow = NoRow
    /\ vline = NoLine
    /\ vres = NoResult
    /\ reqs = NoRequests

NextLedger ==
    \/ \E name \in LedgerNames : create_category(name, "#FF0000", NoBudget)
    \/ \E category_id \in LedgerCategoryIds \ {NoId}, name \in LedgerNames :
            update_category(category_id, name, UnsetBudget)
    \/ \E category_id \in LedgerCategoryIds \ {NoId} : delete_category(category_id)
    \/ \E date \in LedgerDates, amount \in LedgerAmounts, category_id \in LedgerCategoryIds :
            create_transaction(date, "Test", amount, category_id)
    \/ \E file \in LedgerFiles : ImportBegin(file)
    \/ ImportRow(FALSE)
    \/ ImportCommit(TRUE)
    \/ CloseSession

SpecLedger == InitLedger /\ [][NextLedger]_vars

---------------------------------------------------------------------------
(* The aggregations applied to ledgers of up to MaxLedger transactions,    *)
(* with amounts below a hundredth and amounts that cancel                  *)

AggregateDates == {20250115, 20250210}
AggregateAmounts == {45500, -45500, 4}
AggregateCategoryIds == {NoId, 1, 2}
AggregateCategories ==
    <<Category(1, "Alimentation", "#FF0000", NoBudget),
      Category(2, "Transport", "#FF0000", NoBudget)>>

\* The ledger that create_transaction builds from a sequence of its arguments
Ledger(entries) ==
    [i \in DOMAIN entries |->
        Transaction(i, entries[i][1], "Test", entries[i][2], entries[i][3])]

\* The entries are in the order of their dates: a ledger kept day by day
Chronological(entries) ==
    \A i \in 1..(Len(entries) - 1) : entries[i][1] <= entries[i + 1][1]

InitAggregate ==
    /\ today = 20250228
    /\ categories = AggregateCategories
    /\ transactions \in {Ledger(entries) : entries \in
            {e \in SeqsUpTo(AggregateDates \X AggregateAmounts \X AggregateCategoryIds,
                            MaxLedger) : Chronological(e)}}
    /\ settings = <<Settings(NoBudget)>>
    /\ imp = IdleSession
    /\ ret = NoRet
    /\ pre = NoStore
    /\ vfile = NoFile
    /\ vrow = NoRow
    /\ vline = NoLine
    /\ vres = NoResult
    /\ reqs = NoRequests

NextAggregate ==
    \/ \E category_id \in AggregateCategoryIds \ {NoId} : delete_category(category_id)
    \/ CloseSession

SpecAggregate == InitAggregate /\ [][NextAggregate]_vars

---------------------------------------------------------------------------
(* The aggregations applied to ledgers of one month whose amounts are      *)
(* tenths: no double holds 0.1, 0.2 or 0.3, and the doubles nearest to     *)
(* 0.1, 0.2 and -0.3 add up to 5.551115123125783e-17                       *)

TenthsAmounts == {100, 200, -300}

InitTenths ==
    /\ today = 20250228
    /\ categories = AggregateCategories
    /\ transactions \in {Ledger(entries) : entries \in
            SeqsUpTo({20250115} \X TenthsAmounts \X AggregateCategoryIds, MaxLedger)}
    /\ settings = <<Settings(NoBudget)>>
    /\ imp = IdleSession
    /\ ret = NoRet
    /\ pre = NoStore
    /\ vfile = NoFile
    /\ vrow = NoRow
    /\ vline = NoLine
    /\ vres = NoResult
    /\ reqs = NoRequests

SpecTenths == InitTenths /\ [][NextAggregate]_vars

---------------------------------------------------------------------------
(* The budgets and the ledger under update_settings, update_category and   *)
(* create_transaction: two categories, created in an order that is not the *)
(* order of their names                                                    *)

AlertBudgets == {NoBudget, 0, 30000}
AlertDates == {20250115, 20250210}
AlertAmounts == {30000, 30004}
AlertCategoryIds == {NoId, 1, 2}
AlertCategories ==
    {<<Category(1, "Transport", "#FF0000", first),
       Category(2, "Alimentation", "#FF0000", second)>> :
        first \in AlertBudgets, second \in AlertBudgets}

InitAlerts ==
    /\ today = 20250228
    /\ categories \in AlertCategories
    /\ transactions = <<>>
    /\ settings \in {<<Settings(budget)>> : budget \in AlertBudgets}
    /\ imp = IdleSession
    /\ ret = NoRet
    /\ pre = NoStore
    /\ vfile = NoFile
    /\ vrow = NoRow
    /\ vline = NoLine
    /\ vres = NoResult
    /\ reqs = NoRequests

NextAlerts ==
    \/ \E budget \in AlertBudgets : update_settings(budget)
    \/ \E category_id \in AlertCategoryIds \ {NoId}, budget \in AlertBudgets :
            update_category(category_id, None, budget)
    \/ \E date \in AlertDates, amount \in AlertAmounts, category_id \in AlertCategoryIds :
            create_transaction(date, "Test", amount, category_id)
    \/ CloseSession

SpecAlerts == InitAlerts /\ [][NextAlerts]_vars

---------------------------------------------------------------------------
(* The settings row under GET /settings, PATCH /settings and GET /alerts   *)
(* of concurrent sessions, on a store whose settings row may be missing    *)

SettingsBudgets == {NoBudget, 0, 30000}
SettingsMonths == {<<2025, 1>>, <<2025, 2>>}

InitSettings ==
    /\ today = 20250228
    /\ categories = <<>>
    /\ transactions \in {<<>>, Ledger(<<<<20250115, 30004, NoId>>>>)}
    /\ settings \in {<<>>} \cup {<<Settings(budget)>> : budget \in SettingsBudgets}
    /\ imp = IdleSession
    /\ ret = NoRet
    /\ pre = NoStore
    /\ vfile = NoFile
    /\ vrow = NoRow
    /\ vline = NoLine
    /\ vres = NoResult
    /\ reqs = NoRequests

NextSettings ==
    \/ \E s \in Sessions : SettingsQuery(s, "get_settings", <<>>)
    \/ \E s \in Sessions, budget \in SettingsBudgets :
            SettingsQuery(s, "update_settings", [global_monthly_budget |-> budget])
    \/ \E s \in Sessions : SettingsInsert(s)
    \/ \E s \in Sessions : SettingsRefresh(s)
    \/ \E s \in Sessions : SettingsReturn(s)
    \/ \E s \in Sessions : SettingsUpdate(s)
    \/ \E s \in Sessions : SettingsUpdateRefresh(s)
    \/ \E s \in Sessions, ym \in SettingsMonths :
            SettingsQuery(s, "get_budget_alerts", [year |-> ym[1], month |-> ym[2]])
    \/ \E s \in Sessions : AlertsGlobal(s)
    \/ \E s \in Sessions : AlertsCategories(s)
    \/ \E s \in Sessions : AlertsGrouped(s)
    \/ \E s \in Sessions : AlertsUncategorized(s)
    \/ \E s \in Sessions : EndRequest(s)

SpecSettings == InitSettings /\ [][NextSettings]_vars

---------------------------------------------------------------------------
(* The category names under create_category and update_category of other   *)
(* sessions and an import, in every interleaving                           *)

NameFiles ==
    {File(TRUE, COLUMNS, <<line>>) :
        line \in {<<"2025-01-15", "Courses", "45.50", "Alimentation">>,
                  <<"2025-01-15", "Courses", "-25.00", "Transport">>}}
NameCategoryIds == {1, 2}

NextNames ==
    \/ \E s \in Sessions, name \in CategoryNames : CreateCategoryQuery(s, name)
    \/ \E s \in Sessions : CreateCategoryCommit(s)
    \/ \E s \in Sessions : CreateCategoryRefresh(s)
    \/ \E s \in Sessions, category_id \in NameCategoryIds, name \in CategoryNames :
            UpdateCategoryQuery(s, category_id, name)
    \/ \E s \in Sessions : UpdateCategoryCheck(s)
    \/ \E s \in Sessions : UpdateCategoryCommit(s)
    \/ \E s \in Sessions : UpdateCategoryRefresh(s)
    \/ \E s \in Sessions : EndRequest(s)
    \/ \E file \in NameFiles : ImportBegin(file)
    \/ ImportRowSelect
    \/ ImportRowFlush
    \/ ImportCommit(TRUE)
    \/ CloseSession

SpecNames == InitLedger /\ [][NextNames]_vars

---------------------------------------------------------------------------
(* The ledger under create_transaction, update_transaction and import, with *)
(* dates after today, amounts of 0 and category ids that do not exist       *)

LedgerEntryDates == {20250115, 20250210}
LedgerEntryAmounts == {0, -25000, 45500}
LedgerEntryCategoryIds == {NoId, 1, 2}
LedgerEntryIds == {1, 2}
LedgerEntryFiles ==
    {File(TRUE, COLUMNS, <<line>>) :
        line \in {<<"2025-01-15", "Courses", "45.50", "">>,
                  <<" 2025-02-10 ", " Courses ", "-25.00", " Transport ">>,
                  <<"2025-01-15", "Courses", "0.00", "">>}}

\* The PATCH bodies: every choice of the fields that are set, and of their values
UpdateBodies ==
    {[field \in fields |-> full[field]] :
        fields \in SUBSET {"date", "amount", "category_id"},
        full \in [date : LedgerEntryDates, amount : LedgerEntryAmounts,
                  category_id : LedgerEntryCategoryIds]}

InitTransactions ==
    /\ today \in Days
    /\ categories = <<Category(1, "Alimentation", "#FF0000", NoBudget)>>
    /\ transactions = <<>>
    /\ settings = <<Settings(NoBudget)>>
    /\ imp = IdleSession
    /\ ret = NoRet
    /\ pre = NoStore
    /\ vfile = NoFile
    /\ vrow = NoRow
    /\ vline = NoLine
    /\ vres = NoResult
    /\ reqs = NoRequests

NextTransactions ==
    \/ \E date \in LedgerEntryDates, amount \in LedgerEntryAmounts,
          category_id \in LedgerEntryCategoryIds :
            create_transaction(date, "Test", amount, category_id)
    \/ \E transaction_id \in LedgerEntryIds, update_data \in UpdateBodies :
            update_transaction(transaction_id, update_data)
    \/ \E transaction_id \in LedgerEntryIds : delete_transaction(transaction_id)
    \/ \E file \in LedgerEntryFiles : ImportBegin(file)
    \/ ImportRow(FALSE)
    \/ ImportCommit(TRUE)
    \/ CloseSession

SpecTransactions == InitTransactions /\ [][NextTransactions]_vars

---------------------------------------------------------------------------
(* The category ids of the ledger under create_transaction,                *)
(* update_transaction, delete_transaction and delete_category of other     *)
(* sessions and an import, in every interleaving                           *)

IntegrityCategoryIds == {NoId, 1}
IntegrityFiles ==
    {File(TRUE, COLUMNS, <<<<"2025-01-15", "Courses", "45.50", "Alimentation">>>>)}
IntegrityBodies == {[field \in {"category_id"} |-> category_id] :
                        category_id \in IntegrityCategoryIds}

InitIntegrity ==
    /\ today = 20250228
    /\ categories = <<Category(1, "Alimentation", "#FF0000", NoBudget)>>
    /\ transactions = <<>>
    /\ settings = <<Settings(NoBudget)>>
    /\ imp = IdleSession
    /\ ret = NoRet
    /\ pre = NoStore
    /\ vfile = NoFile
    /\ vrow = NoRow
    /\ vline = NoLine
    /\ vres = NoResult
    /\ reqs = NoRequests

NextIntegrity ==
    \/ \E s \in Sessions, category_id \in IntegrityCategoryIds \ {NoId} :
            CreateTransactionQuery(s, 20250115, 45500, category_id)
    \/ \E s \in Sessions : CreateTransactionCommit(s)
    \/ \E s \in Sessions : CreateTransactionRefresh(s)
    \/ \E s \in Sessions, category_id \in IntegrityCategoryIds \ {NoId} :
            DeleteCategoryQuery(s, category_id)
    \/ \E s \in Sessions : DeleteCategoryLoad(s)
    \/ \E s \in Sessions : DeleteCategoryCommit(s)
    \/ \E s \in Sessions, transaction_id \in IntegrityCategoryIds \ {NoId},
          update_data \in IntegrityBodies :
            UpdateTransactionQuery(s, transaction_id, update_data)
    \/ \E s \in Sessions : UpdateTransactionCheck(s)
    \/ \E s \in Sessions : UpdateTransactionCommit(s)
    \/ \E s \in Sessions : UpdateTransactionRefresh(s)
    \/ \E s \in Sessions, transaction_id \in IntegrityCategoryIds \ {NoId} :
            DeleteTransactionQuery(s, transaction_id)
    \/ \E s \in Sessions : DeleteTransactionCommit(s)
    \/ \E s \in Sessions : EndRequest(s)
    \/ \E file \in IntegrityFiles : ImportBegin(file)
    \/ ImportRowSelect
    \/ ImportRowFlush
    \/ ImportCommit(TRUE)
    \/ CloseSession

SpecIntegrity == InitIntegrity /\ [][NextIntegrity]_vars

---------------------------------------------------------------------------
(* The categories under create_category, update_category and               *)
(* delete_category of other sessions, in every interleaving                *)

NextCategories ==
    \/ \E s \in Sessions, name \in CategoryNames : CreateCategoryQuery(s, name)
    \/ \E s \in Sessions : CreateCategoryCommit(s)
    \/ \E s \in Sessions : CreateCategoryRefresh(s)
    \/ \E s \in Sessions, category_id \in NameCategoryIds, name \in CategoryNames :
            UpdateCategoryQuery(s, category_id, name)
    \/ \E s \in Sessions : UpdateCategoryCheck(s)
    \/ \E s \in Sessions : UpdateCategoryCommit(s)
    \/ \E s \in Sessions : UpdateCategoryRefresh(s)
    \/ \E s \in Sessions, category_id \in NameCategoryIds :
            DeleteCategoryQuery(s, category_id)
    \/ \E s \in Sessions : DeleteCategoryLoad(s)
    \/ \E s \in Sessions : DeleteCategoryCommit(s)
    \/ \E s \in Sessions : EndRequest(s)

SpecCategories == InitIntegrity /\ [][NextCategories]_vars

---------------------------------------------------------------------------
(* Properties of the import report *)

IsValid(row) == validate_row(row, NoLine).valid

\* The positions among the first n rows that validate_row accepts / rejects
ValidUpTo(rows, n) == {i \in 1..n : IsValid(rows[i])}
InvalidUpTo(rows, n) == {i \in 1..n : ~IsValid(rows[i])}

\* The transactions committed since the call began
NewTransactions == SubSeq(transactions, Len(pre.transactions) + 1, Len(transactions))
NewCategories == SubSeq(categories, Len(pre.categories) + 1, Len(categories))

\* C1: when the final commit of an import fails, the transactions and the
\* categories of the store are those of before the call, and the report is
\* inserted = 0, skipped = 0 with exactly one error, which is batch-level,
\* whatever the rows were.
C1_CommitFailureDiscardsBatch ==
    imp.pc = "rolled_back" =>
        /\ transactions = pre.transactions
        /\ categories = pre.categories
        /\ ret.inserted = 0
        /\ ret.skipped = 0
        /\ Len(ret.errors) = 1
        /\ ret.errors[1].line = NoLine

\* A failed commit of a batch that had staged a transaction under a category
\* made for it, and had skipped a row
C1_Witness ==
    /\ imp.pc = "rolled_back"
    /\ imp.inserted >= 1
    /\ imp.skipped >= 1
    /\ \E i \in DOMAIN imp.rows :
        /\ IsValid(imp.rows[i])
        /\ HasCategory(imp.rows[i])
        /\ get_category_by_name(categories, strip(imp.rows[i]["category"])) = <<>>

\* C2: the report's inserted field is the number of transactions the call
\* added to the store, on every return path of the import.
C2_InsertedIsLedgerGrowth ==
    ret.op = "import" =>
        ret.inserted = Len(transactions) - Len(pre.transactions)

\* An import that staged a row, then lost its transaction to a failed flush
C2_Witness ==
    /\ ret.op = "import"
    /\ imp.pc = "rolled_back"
    /\ imp.inserted >= 1
    /\ \E k \in DOMAIN imp.errors :
        imp.errors[k].msg = "Erreur lors de l'import - IntegrityError"

\* C3: while the rows are processed, every rejected row so far has added one
\* to skipped and one error and nothing else, and every accepted row so far is
\* staged; when the import commits, inserted + skipped is the number of data
\* rows, the errors are as many as the skipped rows, and every accepted row is
\* in the store.
C3_RejectedRowsNeverAbort ==
    /\ imp.pc \in {"rows", "committed"} =>
        /\ imp.skipped = Cardinality(InvalidUpTo(imp.rows, imp.idx))
        /\ Len(imp.errors) = imp.skipped
        /\ imp.inserted = Cardinality(ValidUpTo(imp.rows, imp.idx))
        /\ imp.inserted + imp.skipped = imp.idx
    /\ imp.pc = "rows" => Len(imp.pending) = imp.inserted
    /\ imp.pc = "committed" =>
        /\ ret.inserted + ret.skipped = Len(imp.rows)
        /\ Len(ret.errors) = ret.skipped
        /\ ret.skipped = Cardinality(InvalidUpTo(imp.rows, Len(imp.rows)))
        /\ Len(NewTransactions) = Cardinality(ValidUpTo(imp.rows, Len(imp.rows)))

\* A committed import of a payload that mixes accepted and rejected rows
C3_Witness ==
    /\ imp.pc = "committed"
    /\ ret.inserted >= 1
    /\ ret.skipped >= 1
    /\ Len(NewTransactions) = ret.inserted

---------------------------------------------------------------------------
(* Properties of validate_row *)

\* The five checks of the row validation, in their order.  A check that needs
\* the parsed value of a cell passes when the cell does not parse: the check
\* before it is then the one that fails.
RowCheck(row, k) ==
    LET date == strptime(strip(row_get(row, "date")))
        amount == float(strip(row_get(row, "amount")))
    IN  CASE k = 1 -> ~Blank(row, "date") /\ ~date.raised
          [] k = 2 -> (~Blank(row, "date") /\ ~date.raised) => ~(date.value > today)
          [] k = 3 -> ~Blank(row, "description")
          [] k = 4 -> ~Blank(row, "amount") /\ ~amount.raised
          [] k = 5 -> (~Blank(row, "amount") /\ ~amount.raised) => amount.value # 0

RowCheckReasons(k) ==
    CASE k = 1 -> {"La date est obligatoire", "La date doit etre au format YYYY-MM-DD"}
      [] k = 2 -> {"La date ne peut pas etre dans le futur"}
      [] k = 3 -> {"La description est obligatoire"}
      [] k = 4 -> {"Le montant est obligatoire", "Le montant doit etre un nombre (ex: 45.99)"}
      [] k = 5 -> {"Le montant ne peut etre egal a 0"}

FailingChecks(row) == {k \in 1..5 : ~RowCheck(row, k)}
FirstFailing(row) == CHOOSE k \in FailingChecks(row) : \A j \in FailingChecks(row) : k <= j

RequiredColumns == {"date", "description", "amount"}

\* C4: validate_row accepts a row exactly when the row passes the five checks
\* (date present and parsed, date not after today, description not blank,
\* amount present and parsed, amount not 0), and the error of a rejected row
\* carries the line number and the reason of the first check that fails; an
\* import of a file whose header lacks a required column skips every data row
\* and inserts none.
C4_ValidateRowChecksInOrder ==
    /\ vres # NoResult =>
        /\ vres.valid <=> FailingChecks(vrow) = {}
        /\ ~vres.valid =>
            /\ vres.error.line = vline
            /\ vres.error.msg \in RowCheckReasons(FirstFailing(vrow))
    /\ (imp.pc = "committed" /\ ~(RequiredColumns \subseteq DOMAIN imp.rows[1])) =>
        /\ ret.inserted = 0
        /\ ret.skipped = Len(imp.rows)
        /\ transactions = <<>>

\* A row rejected for its missing date although its description and its
\* amount fail too, from a file without the date column whose import has
\* committed with every row skipped
C4_Witness ==
    /\ imp.pc = "committed"
    /\ Len(imp.rows) >= 2
    /\ "date" \notin DOMAIN vrow
    /\ ret.skipped = Len(imp.rows)
    /\ vres.error.msg = "La date est obligatoire"
    /\ FailingChecks(vrow) = {1, 3, 5}

---------------------------------------------------------------------------
(* Properties of the import: error numbering, categories, batch aborts *)

\* The k-th smallest member of a set of positions
RECURSIVE Nth(_, _)
Nth(S, k) ==
    LET least == CHOOSE i \in S : \A j \in S : i <= j
    IN  IF k = 1 THEN least ELSE Nth(S \ {least}, k - 1)

\* C5: the k-th error of the report is about the k-th rejected data row and
\* names that row's number, which is i + 1 for the i-th data row, so that the
\* errors are in increasing row order.
C5_ErrorsNameTheirRow ==
    imp.pc \in {"rows", "committed"} =>
        /\ \A k \in DOMAIN imp.errors :
            LET i == Nth(InvalidUpTo(imp.rows, imp.idx), k)
            IN  /\ imp.errors[k].line = i + 1
                /\ imp.errors[k].msg = validate_row(imp.rows[i], NoLine).error.msg
        /\ \A k \in DOMAIN imp.errors : \A j \in DOMAIN imp.errors :
            k < j => imp.errors[k].line < imp.errors[j].line
        /\ imp.pc = "committed" => ret.errors = imp.errors

\* A committed import whose first data row was accepted and whose second was
\* rejected: the only error names row 3
C5_Witness ==
    /\ imp.pc = "committed"
    /\ Len(imp.rows) >= 2
    /\ IsValid(imp.rows[1])
    /\ Len(ret.errors) = 1
    /\ ret.errors[1].line = 3

\* The trimmed category names of the accepted rows
UsedNames == {strip(imp.rows[i]["category"]) :
                i \in {j \in ValidUpTo(imp.rows, Len(imp.rows)) : HasCategory(imp.rows[j])}}

NamesOf(cats) == {cats[i].name : i \in DOMAIN cats}

\* The accepted rows, in payload order
AcceptedRows == SelectSeq(imp.rows, IsValid)

\* C6: after a committed import the store holds exactly one category for
\* every name the accepted rows use; the categories made by the import are
\* those names that did not exist, each once, with the default color and no
\* budget; the categories that existed are untouched; and every transaction of
\* the batch references the one category of its row's trimmed name.
C6_OneCategoryPerName ==
    imp.pc = "committed" =>
        /\ \A n \in UsedNames : Len(get_category_by_name(categories, n)) = 1
        /\ SubSeq(categories, 1, Len(pre.categories)) = pre.categories
        /\ NamesOf(NewCategories) = UsedNames \ NamesOf(pre.categories)
        /\ Len(NewCategories) = Cardinality(UsedNames \ NamesOf(pre.categories))
        /\ \A i \in DOMAIN NewCategories :
            /\ NewCategories[i].color = DEFAULT_CATEGORY_COLOR
            /\ NewCategories[i].monthly_budget = NoBudget
        /\ Len(NewTransactions) = Len(AcceptedRows)
        /\ \A j \in DOMAIN NewTransactions :
            IF HasCategory(AcceptedRows[j])
            THEN NewTransactions[j].category_id =
                    Head(get_category_by_name(categories, strip(AcceptedRows[j]["category"]))).id
            ELSE NewTransactions[j].category_id = NoId

\* A committed import of two accepted rows that name the same category, which
\* did not exist, beside a category that did
C6_Witness ==
    /\ imp.pc = "committed"
    /\ pre.categories # <<>>
    /\ Len(NewCategories) = 1
    /\ Len(NewTransactions) = 2
    /\ NewTransactions[1].category_id = NewCategories[1].id
    /\ NewTransactions[2].category_id = NewCategories[1].id
    /\ imp.rows[1]["category"] # imp.rows[2]["category"]

\* C7: an import of a payload that is not UTF-8 or that holds no data row
\* returns inserted = 0, skipped = 0 and one error, has processed no row, and
\* leaves transactions, categories and settings as they were.
C7_EmptyOrUndecodableAborts ==
    (ret.op = "import" /\ imp.rows = <<>>) =>
        /\ imp.pc \in {"decode_error", "empty"}
        /\ ret.inserted = 0
        /\ ret.skipped = 0
        /\ Len(ret.errors) = 1
        /\ ret.errors[1].line = NoLine
        /\ imp.idx = 0
        /\ Store = pre

\* An import of a payload without data rows into a ledger that holds a
\* category and a transaction
C7_Witness ==
    /\ imp.pc = "empty"
    /\ ret.op = "import"
    /\ transactions # <<>>
    /\ categories # <<>>

---------------------------------------------------------------------------
(* Properties of get_monthly_total *)

Months == {<<2025, 1>>, <<2025, 2>>, <<2025, 3>>, <<2024, 1>>}

\* The sum over a set of positions of the integer the function f holds at each
RECURSIVE SumOver(_, _)
SumOver(S, f) ==
    IF S = {} THEN 0
    ELSE LET i == CHOOSE j \in S : TRUE
         IN  f[i] + SumOver(S \ {i}, f)

\* The doubles that f holds at the positions of S up to n, added to start one
\* after the other in the order of the positions
RECURSIVE AddedFrom(_, _, _, _)
AddedFrom(start, S, f, n) ==
    IF n = 0 THEN start
    ELSE LET before == AddedFrom(start, S, f, n - 1)
         IN  IF n \in S THEN FloatAdd(before, f[n]) ELSE before

\* A number of hundredths from an integer, and the sum, the difference and
\* the comparison of numbers of hundredths; 0.0 and -0.0 are equal
Cents(i) == Hundredths(i < 0, BigOfInt(IF i < 0 THEN 0 - i ELSE i))

HAdd(a, b) ==
    IF a.neg = b.neg THEN Hundredths(a.neg, BigAdd(a.k, b.k))
    ELSE IF BigCmp(a.k, b.k) >= 0 THEN Hundredths(a.neg, BigSub(a.k, b.k))
    ELSE Hundredths(b.neg, BigSub(b.k, a.k))

HSub(a, b) == HAdd(a, Hundredths(~b.neg, b.k))
HEqual(a, b) == (a.k = <<>> /\ b.k = <<>>) \/ a = b
HPositive(a) == ~a.neg /\ a.k # <<>>
HNegative(a) == a.neg /\ a.k # <<>>

\* The sum of the numbers of hundredths that f holds at the elements of S
RECURSIVE HSumOver(_, _)
HSumOver(S, f) ==
    IF S = {} THEN Cents(0)
    ELSE LET i == CHOOSE j \in S : TRUE
         IN  HAdd(f[i], HSumOver(S \ {i}, f))

RowDate(row) == strptime(strip(row["date"])).value
RowAmount(row) == float(strip(row["amount"])).value

\* The positions of the accepted rows of the payload dated in month (y, m)
AcceptedOf(y, m) ==
    {i \in ValidUpTo(imp.rows, Len(imp.rows)) :
        year(RowDate(imp.rows[i])) = y /\ month(RowDate(imp.rows[i])) = m}

\* The amounts of the accepted rows of the payload dated in month (y, m),
\* added to start in the order of the rows
AcceptedSum(start, y, m) ==
    AddedFrom(start, AcceptedOf(y, m),
              [i \in DOMAIN imp.rows |-> Real(RowAmount(imp.rows[i]))], Len(imp.rows))

\* C8: after a committed import, the monthly total of every month is the
\* total of before the import plus the amounts of the accepted rows dated in
\* that month, added in the order of the rows; on a ledger that was empty it
\* is the sum of those amounts.
C8_ImportThenMonthlyTotal ==
    imp.pc = "committed" =>
        \A ym \in Months :
            /\ get_monthly_total(transactions, ym[1], ym[2], NoId) =
                 AcceptedSum(get_monthly_total(pre.transactions, ym[1], ym[2], NoId),
                             ym[1], ym[2])
            /\ pre.transactions = <<>> =>
                 get_monthly_total(transactions, ym[1], ym[2], NoId)
                    = AcceptedSum(Zero(FALSE), ym[1], ym[2])

\* A committed import, into a ledger with a transaction of January, of an
\* accepted row of January and of a rejected row
C8_Witness ==
    /\ imp.pc = "committed"
    /\ today = 20250228
    /\ ~IsZero(get_monthly_total(pre.transactions, 2025, 1, NoId))
    /\ ~IsZero(AcceptedSum(Zero(FALSE), 2025, 1))
    /\ ret.inserted >= 1
    /\ ret.skipped >= 1

\* The rows of the payload that pass every check and hold a negative amount
RefundRows == SelectSeq(imp.rows, LAMBDA row :
                /\ FailingChecks(row) \subseteq {5}
                /\ RowAmount(row) < 0)

\* The total of the month of the i-th transaction over the first n
\* transactions
TotalUpTo(n, i) ==
    get_monthly_total(SubSeq(transactions, 1, n), year(transactions[i].date),
                      month(transactions[i].date), NoId)

\* C9: create_transaction given a negative amount, a date that is not in the
\* future and no category or an existing one stores the transaction; a
\* committed import stores a transaction for every row that passes the date and
\* description checks and holds a negative amount; and every stored
\* transaction with amount a < 0 makes the total of its month, taken over the
\* transactions stored up to it, |a| less than it is without it.
C9_RefundsAccepted ==
    /\ ( /\ ret.op = "create_transaction"
         /\ ret.args.amount < 0
         /\ ret.args.date <= today
         /\ (ret.args.category_id = NoId
                \/ category_exists(pre.categories, ret.args.category_id)) ) =>
        /\ ~ret.raised
        /\ transactions = Append(pre.transactions, [ret.args EXCEPT !.id = ret.id])
    /\ imp.pc = "committed" =>
        [j \in DOMAIN RefundRows |-> RowAmount(RefundRows[j])]
          = [j \in DOMAIN SelectSeq(NewTransactions, LAMBDA t : t.amount < 0) |->
                SelectSeq(NewTransactions, LAMBDA t : t.amount < 0)[j].amount]
    /\ \A i \in DOMAIN transactions :
        transactions[i].amount < 0 =>
            LET without == TotalUpTo(i - 1, i)
                after == TotalUpTo(i, i)
            IN  /\ after = FloatSub(without, Real(0 - transactions[i].amount))
                /\ FloatGreater(without, after)

\* create_transaction has stored a refund after an import had stored one, and
\* the total of the month is negative
C9_Witness ==
    /\ ret.op = "create_transaction"
    /\ ~ret.raised
    /\ ret.args.amount < 0
    /\ Len(transactions) = 2
    /\ transactions[1].description = "Courses"
    /\ transactions[1].amount < 0
    /\ get_monthly_total(transactions, 2025, 1, NoId) = Real(-50000)

\* The positions of the transactions dated in month (y, m) and, when
\* category_id is given, of that category
Matching(y, m, category_id) ==
    {i \in DOMAIN transactions :
        /\ year(transactions[i].date) = y
        /\ month(transactions[i].date) = m
        /\ (category_id = NoId \/ transactions[i].category_id = category_id)}

\* The amount of each transaction as the double the store holds
Amounts == [i \in DOMAIN transactions |-> Real(transactions[i].amount)]

\* C10: get_monthly_total(y, m, c) is the sum of the amounts of the
\* transactions dated in month (y, m) and, when c is given, of category c,
\* added in the order in which they are stored; a transaction of another month
\* or another category adds nothing; the total is 0 when no transaction
\* matches.
C10_MonthlyTotalIsWindowSum ==
    \A ym \in Months : \A c \in {NoId, 1, 2, 3} :
        LET total == get_monthly_total(transactions, ym[1], ym[2], c)
            matching == Matching(ym[1], ym[2], c)
        IN  /\ total = AddedFrom(Zero(FALSE), matching, Amounts, Len(transactions))
            /\ matching = {} => total = Zero(FALSE)

\* A ledger with a transaction of January under category 1 and a transaction
\* of January under no category: the total of category 1 is not the total of
\* the month, and February's is 0
C10_Witness ==
    /\ Len(transactions) = 2
    /\ transactions[1].category_id = 1
    /\ transactions[2].category_id = NoId
    /\ get_monthly_total(transactions, 2025, 1, 1) = Real(45500)
    /\ get_monthly_total(transactions, 2025, 1, NoId) = Real(20500)
    /\ get_monthly_total(transactions, 2025, 2, NoId) = Zero(FALSE)

---------------------------------------------------------------------------
(* Properties of the aggregations *)

\* The positions of the transactions dated in month (y, m)
WindowOf(y, m) == Matching(y, m, NoId)

\* C11: get_monthly_summary returns the monthly total rounded to 2 decimals,
\* the number of transactions of the window whatever their category, the
\* category breakdown, and an average that is total / count rounded to 2
\* decimals when count > 0 and 0 when count = 0.
C11_SummaryOfMonth ==
    \A ym \in Months :
        LET summary == get_monthly_summary(categories, transactions, ym[1], ym[2])
            total == get_monthly_total(transactions, ym[1], ym[2], NoId)
            n == Cardinality(WindowOf(ym[1], ym[2]))
        IN  /\ summary.total = round2(total)
            /\ summary.count = n
            /\ summary.by_category =
                    get_category_breakdown(categories, transactions, ym[1], ym[2])
            /\ n > 0 => summary.average = round2(FloatDiv(total, FloatOfInt(n)))
            /\ n = 0 => summary.average = Cents(0) /\ summary.total = Cents(0)

\* A ledger with two transactions of 0.004 in January, one of them without
\* category, and none in February: the total 0.008 is returned as 0.01, the
\* average 0.004 as 0, and February's count and average are 0
C11_Witness ==
    /\ get_monthly_summary(categories, transactions, 2025, 1).count = 2
    /\ get_monthly_summary(categories, transactions, 2025, 1).total = Cents(1)
    /\ get_monthly_summary(categories, transactions, 2025, 1).average = Cents(0)
    /\ \E i \in WindowOf(2025, 1) : transactions[i].category_id = NoId
    /\ get_monthly_summary(categories, transactions, 2025, 2).count = 0
    /\ get_monthly_summary(categories, transactions, 2025, 2).average = Cents(0)

\* C12: in every ledger state and for every month, the values of
\* get_total_by_category add up to get_monthly_total: every transaction of the
\* window is counted in exactly one bucket.
C12_BucketsAddUpToTotal ==
    \A ym \in Months :
        FloatEqual(SumValues(get_total_by_category(categories, transactions, ym[1], ym[2])),
                   get_monthly_total(transactions, ym[1], ym[2], NoId))

\* The amounts in month (y, m) of the transactions whose category_id is c,
\* added in the order in which they are stored
SpendOf(c, y, m) ==
    AddedFrom(Zero(FALSE), {i \in WindowOf(y, m) : transactions[i].category_id = c},
              Amounts, Len(transactions))

\* C13: in every ledger state, the transactions without category of a month
\* are counted under the reserved key of get_total_by_category, and the entry
\* of every category, under its name, counts the transactions of that category
\* and no transaction without category, also when a category is named like
\* the reserved key.
C13_UncategorizedKeptApart ==
    \A ym \in Months :
        LET totals == get_total_by_category(categories, transactions, ym[1], ym[2])
        IN  /\ ~IsZero(SpendOf(NoId, ym[1], ym[2])) =>
                /\ UNCATEGORIZED \in DOMAIN totals.at
                /\ totals.at[UNCATEGORIZED] = SpendOf(NoId, ym[1], ym[2])
            /\ \A i \in DOMAIN categories :
                DictGet(totals, categories[i].name, Zero(FALSE))
                    = SpendOf(categories[i].id, ym[1], ym[2])

\* C14: the keys of get_total_by_category leave out every category without a
\* transaction in the window, and hold the reserved key only if a transaction
\* without category is in the window.
C14_NoZeroFilling ==
    \A ym \in Months :
        LET keys == DOMAIN get_total_by_category(categories, transactions, ym[1], ym[2]).at
        IN  /\ \A i \in DOMAIN categories :
                (\A j \in WindowOf(ym[1], ym[2]) :
                    transactions[j].category_id # categories[i].id)
                => categories[i].name \notin keys
            /\ UNCATEGORIZED \in keys =>
                \E j \in WindowOf(ym[1], ym[2]) : transactions[j].category_id = NoId

\* The totals of the entries of a breakdown, added up
BreakdownTotals(breakdown) ==
    HSumOver(DOMAIN breakdown,
             [category_name \in DOMAIN breakdown |-> breakdown[category_name].total])

\* C15: whenever get_monthly_total is not 0, the totals of the entries of
\* get_category_breakdown, each rounded to 2 decimals, add up to
\* get_monthly_total rounded to 2 decimals.
C15_BreakdownTotalsAddUp ==
    \A ym \in Months :
        ~IsZero(get_monthly_total(transactions, ym[1], ym[2], NoId)) =>
            HEqual(BreakdownTotals(get_category_breakdown(categories, transactions,
                                                          ym[1], ym[2])),
                   round2(get_monthly_total(transactions, ym[1], ym[2], NoId)))

\* The percentages of the entries of a breakdown, added up
BreakdownPercentages(breakdown) ==
    HSumOver(DOMAIN breakdown,
             [category_name \in DOMAIN breakdown |-> breakdown[category_name].percentage])

\* C16: whenever the global sum of get_total_by_category is not 0, each
\* percentage of get_category_breakdown is total / global sum * 100 rounded to
\* 2 decimals, and the percentages add up to 100 within the rounding
\* tolerance of half a hundredth of a percent per entry, also when some
\* totals are negative.
C16_PercentagesAddUpTo100 ==
    \A ym \in Months :
        LET totals == get_total_by_category(categories, transactions, ym[1], ym[2])
            breakdown == get_category_breakdown(categories, transactions, ym[1], ym[2])
        IN  ~IsZero(SumValues(totals)) =>
                /\ DOMAIN breakdown = DOMAIN totals.at
                /\ \A k \in DOMAIN breakdown :
                       breakdown[k].percentage =
                           round2(FloatTimes100(FloatDiv(totals.at[k], SumValues(totals))))
                /\ BigCmp(BigTimes(HSub(BreakdownPercentages(breakdown), Cents(10000)).k, 2),
                          BigOfInt(Cardinality(DOMAIN breakdown))) <= 0

\* C17: get_category_breakdown is the empty mapping exactly when the values
\* of get_total_by_category add up to 0, also when transactions exist in the
\* window and buckets have nonzero totals that cancel; otherwise it has one
\* entry for every key of get_total_by_category.
C17_EmptyExactlyWhenSumIsZero ==
    \A ym \in Months :
        LET totals == get_total_by_category(categories, transactions, ym[1], ym[2])
            breakdown == get_category_breakdown(categories, transactions, ym[1], ym[2])
        IN  /\ (DOMAIN breakdown = {}) <=> IsZero(SumValues(totals))
            /\ ~IsZero(SumValues(totals)) => DOMAIN breakdown = DOMAIN totals.at

\* a month whose buckets have nonzero totals that cancel, and an empty
\* breakdown
C17_Witness ==
    \E ym \in Months :
        LET totals == get_total_by_category(categories, transactions, ym[1], ym[2])
        IN  /\ WindowOf(ym[1], ym[2]) # {}
            /\ \E k \in DOMAIN totals.at : FloatGreater(totals.at[k], Zero(FALSE))
            /\ \E k \in DOMAIN totals.at : FloatGreater(Zero(FALSE), totals.at[k])
            /\ IsZero(SumValues(totals))
            /\ DOMAIN get_category_breakdown(categories, transactions, ym[1], ym[2]) = {}

---------------------------------------------------------------------------
(* Properties of delete_category *)

\* The positions of the transactions the deleted category owned before the call
Owned == {i \in DOMAIN pre.transactions :
            pre.transactions[i].category_id = ret.args.category_id}

Deleted == ret.op = "delete_category" /\ ret.value = TRUE

\* C18: delete_category on a category that owns transactions deletes none of
\* them: the number of transactions is unchanged, each formerly owned
\* transaction is the same transaction with an absent category reference, the
\* other transactions are untouched, no category owns the formerly owned
\* transactions, get_monthly_total of every month is unchanged, and the
\* aggregation of every month that has formerly owned transactions counts
\* them under the reserved key: a total of the transactions without category
\* that is not 0 is in get_total_by_category under that key, and a breakdown
\* that is not empty has that key, with the number of the transactions
\* without category of the month as its count.
C18_DeleteDetaches ==
    Deleted =>
        /\ Len(transactions) = Len(pre.transactions)
        /\ \A i \in DOMAIN pre.transactions :
              transactions[i] = IF i \in Owned
                                THEN [pre.transactions[i] EXCEPT !.category_id = NoId]
                                ELSE pre.transactions[i]
        /\ \A i \in Owned, j \in DOMAIN categories :
              transactions[i].category_id # categories[j].id
        /\ \A ym \in Months :
              LET totals == get_total_by_category(categories, transactions, ym[1], ym[2])
                  breakdown == get_category_breakdown(categories, transactions, ym[1], ym[2])
                  without == {i \in WindowOf(ym[1], ym[2]) : transactions[i].category_id = NoId}
              IN  /\ Owned \cap WindowOf(ym[1], ym[2]) \subseteq without
                  /\ ~IsZero(SpendOf(NoId, ym[1], ym[2])) =>
                        /\ UNCATEGORIZED \in DOMAIN totals.at
                        /\ totals.at[UNCATEGORIZED] = SpendOf(NoId, ym[1], ym[2])
                  /\ (Owned \cap WindowOf(ym[1], ym[2]) # {} /\ DOMAIN breakdown # {}) =>
                        /\ UNCATEGORIZED \in DOMAIN breakdown
                        /\ breakdown[UNCATEGORIZED].count = Cardinality(without)
                  /\ get_monthly_total(transactions, ym[1], ym[2], NoId)
                        = get_monthly_total(pre.transactions, ym[1], ym[2], NoId)

---------------------------------------------------------------------------
(* Properties of get_budget_alerts *)

AlertsOf(y, m) == get_budget_alerts(settings, categories, transactions, y, m)

GlobalAlerts(alerts) == SelectSeq(alerts, LAMBDA a : a.scope = "global")
CategoryAlertsOf(alerts) == SelectSeq(alerts, LAMBDA a : a.scope = "category")

\* The global budget of the settings row; NoBudget when it is absent
GlobalBudget ==
    IF settings = <<>> THEN NoBudget ELSE settings[1].global_monthly_budget

\* C19: get_budget_alerts has exactly one alert of scope "global" if the
\* global budget is present, is not 0 and get_monthly_total of the month is
\* strictly above it, and no global alert otherwise; an absent or zero global
\* budget gives no global alert whatever the spending.
C19_GlobalAlert ==
    \A ym \in Months :
        LET globals == GlobalAlerts(AlertsOf(ym[1], ym[2]))
            actual == get_monthly_total(transactions, ym[1], ym[2], NoId)
        IN  IF /\ GlobalBudget # NoBudget
               /\ GlobalBudget # 0
               /\ FloatGreater(actual, Real(GlobalBudget))
            THEN /\ Len(globals) = 1
                 /\ globals[1].budget = round2(Real(GlobalBudget))
                 /\ globals[1].actual = round2(actual)
            ELSE globals = <<>>

\* one month is above a global budget of 30.00 and alerts, another month is
\* at the budget exactly and does not
C19_Witness ==
    /\ GlobalBudget = 30000
    /\ \E ym \in Months :
          /\ FloatGreater(get_monthly_total(transactions, ym[1], ym[2], NoId), Real(30000))
          /\ Len(GlobalAlerts(AlertsOf(ym[1], ym[2]))) = 1
    /\ \E ym \in Months :
          /\ get_monthly_total(transactions, ym[1], ym[2], NoId) = Real(30000)
          /\ GlobalAlerts(AlertsOf(ym[1], ym[2])) = <<>>

\* The categories whose budget is present, is not 0 and is strictly below
\* their entry in get_total_by_category (0 when absent), in the order of
\* get_all_categories
OverBudget(y, m) ==
    LET totals == get_total_by_category(categories, transactions, y, m)
    IN  SelectSeq(categories, LAMBDA c :
            /\ c.monthly_budget # NoBudget
            /\ c.monthly_budget # 0
            /\ FloatGreater(DictGet(totals, c.name, Zero(FALSE)), Real(c.monthly_budget)))

\* C20: get_budget_alerts has a category alert for a category if and only if
\* its budget is present, is not 0 and its entry in get_total_by_category (0
\* when absent) is strictly above the budget; there is at most one alert per
\* category, the category alerts are in the order in which the categories are
\* enumerated, and the global alert, when there is one, is the first alert.
C20_CategoryAlerts ==
    \A ym \in Months :
        LET alerts == AlertsOf(ym[1], ym[2])
            over == OverBudget(ym[1], ym[2])
            mine == CategoryAlertsOf(alerts)
        IN  /\ Len(mine) = Len(over)
            /\ \A i \in DOMAIN mine :
                  /\ mine[i].category = over[i].name
                  /\ mine[i].budget = round2(Real(over[i].monthly_budget))
            /\ alerts = GlobalAlerts(alerts) \o mine
            /\ Len(GlobalAlerts(alerts)) <= 1

\* a month with a global alert followed by the alerts of both categories, in
\* the order of their creation and not of their names, and another month
\* without alert
C20_Witness ==
    /\ \E ym \in Months :
          LET alerts == AlertsOf(ym[1], ym[2])
          IN  /\ Len(alerts) = 3
              /\ alerts[1].scope = "global"
              /\ alerts[2].category = "Transport"
              /\ alerts[3].category = "Alimentation"
    /\ \E ym \in Months : AlertsOf(ym[1], ym[2]) = <<>>

\* C21: every alert of get_budget_alerts has delta = actual - budget on the
\* values of the alert, each rounded to 2 decimals, and its delta is positive.
C21_DeltaIsPositiveOverage ==
    \A ym \in Months :
        LET alerts == AlertsOf(ym[1], ym[2])
        IN  \A i \in DOMAIN alerts :
                /\ HEqual(alerts[i].delta, HSub(alerts[i].actual, alerts[i].budget))
                /\ HPositive(alerts[i].delta)

---------------------------------------------------------------------------
(* Properties of the settings row *)

\* C22: no step of a get_budget_alerts request changes transactions,
\* categories or settings, also on a store without a settings row.
C22_AlertsNeverWrite ==
    [][\A s \in Sessions :
          (/\ reqs[s].pc # "idle"
           /\ reqs[s].op = "get_budget_alerts"
           /\ reqs'[s] # reqs[s])
          => /\ settings' = settings
             /\ categories' = categories
             /\ transactions' = transactions]_vars

\* The settings table holds at most the row id = 1
Singleton == Len(settings) <= 1 /\ \A i \in DOMAIN settings : settings[i].id = 1

\* C23: in every state reached under any interleaving of get_settings and
\* update_settings, the store holds at most one settings row and it has id 1;
\* a step that creates it creates it with a null global budget, and once it
\* exists no step deletes it or creates it again.
C23_SettingsSingleton ==
    /\ Singleton
    /\ [][/\ Singleton'
          /\ (settings = <<>> /\ settings' # <<>>) => settings' = <<Settings(NoBudget)>>
          /\ settings # <<>> => Len(settings') = Len(settings)]_vars

\* two requests found no settings row; one has created it, and the other's
\* INSERT was refused
C23_Witness ==
    /\ settings = <<Settings(NoBudget)>>
    /\ \E s, t \in Sessions :
          /\ reqs[s].pc = "loaded"
          /\ reqs[t].pc = "done"
          /\ reqs[t].raised
          /\ reqs[t].error = "IntegrityError"

---------------------------------------------------------------------------
(* Properties of the store under concurrent requests *)

NamesUnique ==
    \A i, j \in DOMAIN categories :
        categories[i].name = categories[j].name => i = j

\* The request of session s ends with this step, on an exception
EndsRaised(s) ==
    /\ reqs[s].pc # "done"
    /\ reqs'[s].pc = "done"
    /\ reqs'[s].raised

\* C24: in every state reached under any interleaving of create_category,
\* update_category and imports, no two categories have the same name; a
\* create_category or a rename that meets a name in use, at its lookup or at
\* its commit, ends with ValueError and leaves the store as it was.
C24_NamesUnique ==
    /\ NamesUnique
    /\ [][/\ NamesUnique'
          /\ \A s \in Sessions :
                EndsRaised(s) =>
                    /\ reqs'[s].error \in {"ValueError", "ValueError from IntegrityError"}
                    /\ categories' = categories
                    /\ transactions' = transactions
          /\ \A s \in Sessions :
                (/\ reqs[s].pc \in {"adding", "renaming"}
                 /\ reqs'[s] # reqs[s]
                 /\ reqs[s].pc = "renaming" => reqs[s].args.name # reqs[s].loaded.name
                 /\ \E i \in DOMAIN categories :
                       /\ categories[i].name = reqs[s].args.name
                       /\ reqs[s].pc = "renaming" =>
                             categories[i].id # reqs[s].args.category_id)
                    => EndsRaised(s)
          /\ \A s \in Sessions :
                (/\ reqs[s].pc = "checking"
                 /\ reqs'[s] # reqs[s]
                 /\ get_category_by_name(categories, reqs[s].args.name) # <<>>)
                    => EndsRaised(s)
          /\ \A s \in Sessions :
                (/\ reqs[s].pc = "idle"
                 /\ reqs'[s].pc # "idle"
                 /\ reqs'[s].op = "create_category"
                 /\ get_category_by_name(categories, reqs'[s].args.name) # <<>>)
                    => EndsRaised(s)]_vars

\* a create_category whose lookup found the name free has met the name at its
\* commit, taken meanwhile by the other session, and ended with ValueError
C24_Witness ==
    \E s, t \in Sessions :
        /\ reqs[s].pc = "done"
        /\ reqs[s].op = "create_category"
        /\ ~reqs[s].raised
        /\ reqs[t].pc = "done"
        /\ reqs[t].op = "create_category"
        /\ reqs[t].raised
        /\ reqs[t].error = "ValueError from IntegrityError"
        /\ reqs[t].args.name = reqs[s].args.name
        /\ Len(categories) = 1

\* The call that has just returned asked for a transaction the ledger must
\* not hold: an amount of 0, a date after today, or a category id that no
\* category has
AsksForInvalid ==
    \/ /\ ret.op = "create_transaction"
       /\ \/ ret.args.amount = 0
          \/ ret.args.date > today
          \/ /\ ret.args.category_id # NoId
             /\ \A i \in DOMAIN pre.categories : pre.categories[i].id # ret.args.category_id
    \/ /\ ret.op = "update_transaction"
       /\ \E i \in DOMAIN pre.transactions : pre.transactions[i].id = ret.args.transaction_id
       /\ LET body == ret.args.update_data
          IN  \/ "amount" \in DOMAIN body /\ body["amount"] = 0
              \/ "date" \in DOMAIN body /\ body["date"] > today
              \/ /\ "category_id" \in DOMAIN body
                 /\ body["category_id"] # NoId
                 /\ \A i \in DOMAIN pre.categories :
                       pre.categories[i].id # body["category_id"]

\* C25: after any sequence of create_transaction, update_transaction and
\* imports, every transaction of the ledger has an amount other than 0 and a
\* date that is not after the current date; a create or an update that asks
\* for an amount of 0, a date after the current date or a category id that does
\* not exist raises ValueError and leaves the store as it was.
C25_LedgerEntriesValid ==
    /\ \A i \in DOMAIN transactions :
          transactions[i].amount # 0 /\ transactions[i].date <= today
    /\ AsksForInvalid => ret.raised /\ Store = pre

\* an update that moves a transaction of the ledger to a date after today has
\* been refused, and the ledger holds a transaction that an update has changed
C25_Witness ==
    /\ ret.op = "update_transaction"
    /\ ret.raised
    /\ "date" \in DOMAIN ret.args.update_data
    /\ ret.args.update_data["date"] > today
    /\ \E i \in DOMAIN transactions :
          /\ transactions[i].id = ret.args.transaction_id
          /\ transactions[i].amount = 45500
          /\ transactions[i].category_id = 1
    /\ Len(transactions) = 2

---------------------------------------------------------------------------
(* Properties of the import under concurrent writers *)

\* The rows of the finished import that raised inside the try of lines 197-220
StagingErrors ==
    {i \in DOMAIN imp.errors :
        imp.errors[i].msg \in {"Erreur lors de l'import - IntegrityError",
                               "Erreur lors de l'import - PendingRollbackError"}}

\* C26: an import in which the staging of a row raised (the flush of the row's
\* new category violated a constraint) is not aborted: it ends on the commit
\* path, its report counts that row in skipped with its error and the rows
\* that were staged in inserted, and those rows are in the ledger.
C26_StagingErrorSkipsOneRow ==
    (imp.pc \in {"committed", "rolled_back"} /\ StagingErrors # {}) =>
        /\ imp.pc = "committed"
        /\ ret = Report(imp.inserted, imp.skipped, imp.errors)
        /\ Len(transactions) = Len(pre.transactions) + imp.inserted

\* The categories an import created: the only ones of DEFAULT_CATEGORY_COLOR
BatchCategories(cats) == {c \in Range(cats) : c.color = DEFAULT_CATEGORY_COLOR}

\* What a reader of another session sees of the store while the import runs
\* is what it saw before the import began
ReadersSeeNoBatch ==
    \A ym \in Months :
        /\ get_monthly_total(transactions, ym[1], ym[2], NoId)
             = get_monthly_total(pre.transactions, ym[1], ym[2], NoId)
        /\ get_total_by_category(categories, transactions, ym[1], ym[2])
             = get_total_by_category(pre.categories, pre.transactions, ym[1], ym[2])
        /\ get_budget_alerts(settings, categories, transactions, ym[1], ym[2])
             = get_budget_alerts(pre.settings, pre.categories, pre.transactions,
                                 ym[1], ym[2])

\* The step stages the Transaction of a row that names a category: the
\* category is one the session sees, under the row's name and with an id, and
\* the Transaction holds that id
StagedWithCategoryId ==
    (/\ imp.pc = "rows"
     /\ imp.idx < Len(imp.rows)
     /\ HasCategory(imp.rows[imp.idx + 1])
     /\ Len(imp'.pending) = Len(imp.pending) + 1)
    => \E c \in Range(categories' \o imp'.flushed) :
          /\ c.name = strip(imp.rows[imp.idx + 1]["category"])
          /\ c.id # NoId
          /\ imp'.pending[Len(imp'.pending)].category_id = c.id

\* C27: while an import runs, the stored transactions are those of before the
\* import, no category the import created is stored, and get_monthly_total,
\* get_total_by_category and get_budget_alerts of another session return what
\* they returned before it; the store takes the batch in one step only, the
\* commit that follows the last row; and a Transaction staged for a row with
\* a category holds the id of a category that has already been flushed.
C27_OneCommitAfterLastRow ==
    /\ [](imp.pc = "rows" =>
            /\ transactions = pre.transactions
            /\ BatchCategories(categories) = BatchCategories(pre.categories)
            /\ \A i \in DOMAIN imp.flushed : imp.flushed[i] \notin Range(categories)
            /\ ReadersSeeNoBatch)
    /\ [][/\ (\/ BatchCategories(categories') # BatchCategories(categories)
              \/ (imp.pc # "idle" /\ transactions' # transactions))
             => /\ imp.pc = "rows"
                /\ imp.idx = Len(imp.rows)
                /\ imp'.pc = "committed"
          /\ StagedWithCategoryId]_vars

\* the last row of a two-row import has been processed and nothing is
\* committed yet: the first row's new category is flushed, both staged
\* transactions hold its id, and the store still has no category
C27_Witness ==
    /\ imp.pc = "rows"
    /\ imp.idx = Len(imp.rows)
    /\ Len(imp.flushed) = 1
    /\ Len(imp.pending) = 2
    /\ \A i \in DOMAIN imp.pending : imp.pending[i].category_id = imp.flushed[1].id
    /\ imp.flushed[1].id # NoId
    /\ categories = <<>>

\* C28: in every reachable state, under every interleaving of
\* create_transaction, update_transaction, import and delete_category, the
\* category_id of each transaction is null or the id of a stored category.
C28_ReferentialIntegrity ==
    \A i \in DOMAIN transactions :
        \/ transactions[i].category_id = NoId
        \/ \E j \in DOMAIN categories : categories[j].id = transactions[i].category_id

---------------------------------------------------------------------------
(* Properties of the counts of get_monthly_summary *)

\* The sum of the count fields of the entries of a breakdown
BreakdownCounts(breakdown) ==
    SumOver(DOMAIN breakdown, [k \in DOMAIN breakdown |-> breakdown[k].count])

\* C29: whenever by_category of get_monthly_summary(y, m) is not empty, the
\* count fields of its entries add up to the summary's count: every
\* transaction of the window is counted in exactly one entry, the transactions
\* without category whose amounts cancel to 0 included.
C29_CountsAddUp ==
    \A ym \in Months :
        LET summary == get_monthly_summary(categories, transactions, ym[1], ym[2])
        IN  DOMAIN summary.by_category # {} =>
                BreakdownCounts(summary.by_category) = summary.count

---------------------------------------------------------------------------
(* Properties of the categories an import creates *)

\* The rows of the payload that name a category and pass, or fail, the five
\* checks of the row validation
NamingRows(passing) ==
    {i \in DOMAIN imp.rows :
        /\ HasCategory(imp.rows[i])
        /\ (FailingChecks(imp.rows[i]) = {}) = passing}

RowNames(positions) == {strip(imp.rows[i]["category"]) : i \in positions}

\* The categories the import has made so far, committed or only flushed
MadeByImport ==
    {c \in Range(categories \o imp.flushed) : c \notin Range(pre.categories)}

\* C30: an import makes categories only for rows that pass the validation:
\* each category it has made carries the trimmed name of a row that passes the
\* five checks, and a name found only on rejected rows that no category had
\* before the import is the name of no category during or after it.
C30_CategoriesOnlyForValidRows ==
    imp.pc \in {"rows", "committed", "rolled_back"} =>
        /\ \A c \in MadeByImport : c.name \in RowNames(NamingRows(TRUE))
        /\ \A n \in RowNames(NamingRows(FALSE)) \ RowNames(NamingRows(TRUE)) :
              n \notin NamesOf(pre.categories) =>
                  n \notin NamesOf(categories \o imp.flushed)

\* a committed import of an accepted row, whose category it made, and of a
\* rejected row naming a category that does not exist
C30_Witness ==
    /\ imp.pc = "committed"
    /\ Len(imp.rows) = 2
    /\ NamingRows(TRUE) = {1}
    /\ NamingRows(FALSE) = {2}
    /\ ret.inserted = 1
    /\ ret.skipped = 1
    /\ \E c \in MadeByImport : c.name = strip(imp.rows[1]["category"])
    /\ strip(imp.rows[2]["category"]) \notin NamesOf(categories)

====
